---- MODULE Spec2Model ----
(***************************************************************************)
(* Model of the Python-to-C# translator (src/py_to_cs_agent.py).           *)
(*                                                                         *)
(* A syntax tree is a record with a `kind` field (the ast class name) and  *)
(* the fields of that ast class; an absent child node is NoNode, an absent *)
(* string a sequence of length 0.  A piece of emitted text is a sequence of *)
(* tokens whose concatenation is the Python string; an output line is the  *)
(* record [indent, toks] standing for "    " * indent + "".join(toks).     *)
(* The recursive walk of the NodeVisitor is the variable `stack`, the      *)
(* sequence of instructions that remain to be executed.                    *)
(***************************************************************************)
EXTENDS Integers, Sequences, FiniteSets, TLC

VARIABLES
    pc,             \* position of translate_file / main
    caller,         \* "main" (the CLI) or "lib" (an importing caller)
    runs,           \* number of translate_file invocations so far
    input_file,     \* the input of the current invocation
    output_file,    \* None or <<name>>
    tree,           \* None or <<Module node>>: result of ast.parse
    translator,     \* FALSE until PythonToCSharpTranslator() was built in this invocation
    output,         \* translator.output
    indent_level,   \* translator.indent_level
    in_class,       \* translator.in_class
    current_class,  \* translator.current_class: None or <<name>>
    stack,          \* remaining instructions of translator.visit(tree)
    visited,        \* the nodes that the walk has dispatched to a handler, in call order
    exc,            \* None or <<exception kind>> being propagated
    csharp_code,    \* None or <<joined text>>
    result,         \* return value of the last translate_file: None or <<text>>
    outfile,        \* content of the output file on disk: None (absent) or <<text>>
    outfile_before, \* content of the output file when the invocation started
    exit_status     \* None or <<status>> of the process

vars == <<pc, caller, runs, input_file, output_file, tree, translator, output,
          indent_level, in_class, current_class, stack, visited, exc, csharp_code,
          result, outfile, outfile_before, exit_status>>

None == <<>>
Some(x) == <<x>>

\* None in the place of a child node of the tree
NoNode == [kind |-> "NoneType"]
\* the child as a list: empty when the child is None
Opt(child) == IF child = NoNode THEN <<>> ELSE <<child>>

(***************************************************************************)
(* Bounds of the model.                                                    *)
(***************************************************************************)
MaxRuns == 2     \* translate_file invocations of one process
MaxDepth == 2    \* nesting depth of the generated block statements
MaxLiteral == 9  \* largest integer literal of the trees

(***************************************************************************)
(* Mapping tables                                                          *)
(***************************************************************************)
function_mapping ==
    ("print" :> "Console.WriteLine") @@ ("len" :> "Count") @@ ("str" :> "ToString") @@
    ("int" :> "int.Parse") @@ ("float" :> "double.Parse") @@ ("bool" :> "bool.Parse") @@
    ("range" :> "Enumerable.Range") @@ ("sum" :> "Sum") @@ ("max" :> "Max") @@
    ("min" :> "Min") @@ ("sorted" :> "OrderBy") @@ ("reversed" :> "Reverse") @@
    ("enumerate" :> "Select") @@ ("zip" :> "Zip") @@ ("filter" :> "Where") @@
    ("map" :> "Select") @@ ("any" :> "Any") @@ ("all" :> "All")

method_mapping ==
    ("append" :> "Add") @@ ("extend" :> "AddRange") @@ ("insert" :> "Insert") @@
    ("remove" :> "Remove") @@ ("pop" :> "RemoveAt") @@ ("clear" :> "Clear") @@
    ("sort" :> "Sort") @@ ("reverse" :> "Reverse") @@ ("index" :> "IndexOf") @@
    ("count" :> "Count") @@ ("split" :> "Split") @@ ("join" :> "Join") @@
    ("strip" :> "Trim") @@ ("lower" :> "ToLower") @@ ("upper" :> "ToUpper") @@
    ("replace" :> "Replace") @@ ("startswith" :> "StartsWith") @@
    ("endswith" :> "EndsWith") @@ ("find" :> "IndexOf") @@ ("keys" :> "Keys") @@
    ("values" :> "Values") @@ ("items" :> "ToList")

exception_mapping ==
    ("Exception" :> "Exception") @@ ("ValueError" :> "ArgumentException") @@
    ("TypeError" :> "InvalidOperationException") @@ ("KeyError" :> "KeyNotFoundException") @@
    ("IndexError" :> "IndexOutOfRangeException") @@
    ("FileNotFoundError" :> "FileNotFoundException") @@ ("IOError" :> "IOException") @@
    ("RuntimeError" :> "SystemException") @@
    ("NotImplementedError" :> "NotImplementedException") @@
    ("AttributeError" :> "MemberAccessException")

type_mapping ==
    ("int" :> "int") @@ ("float" :> "double") @@ ("str" :> "string") @@ ("bool" :> "bool") @@
    ("list" :> "List") @@ ("dict" :> "Dictionary") @@ ("set" :> "HashSet") @@
    ("tuple" :> "Tuple") @@ ("None" :> "null") @@ ("True" :> "true") @@ ("False" :> "false")

\* dict.get(key, default)
DictGet(table, key, default) == IF key \in DOMAIN table THEN table[key] ELSE default

(***************************************************************************)
(* Text helpers                                                            *)
(***************************************************************************)
RECURSIVE Concat(_)
\* "".join(toks)
Concat(toks) == IF toks = <<>> THEN "" ELSE Head(toks) \o Concat(Tail(toks))

RECURSIVE JoinToks(_, _)
\* sep.join(parts), every part being a token sequence
JoinToks(parts, sep) ==
    IF parts = <<>> THEN <<>>
    ELSE IF Len(parts) = 1 THEN parts[1]
    ELSE parts[1] \o <<sep>> \o JoinToks(Tail(parts), sep)

(***************************************************************************)
(* Operator symbol tables                                                  *)
(***************************************************************************)
get_operator(op) ==
    DictGet(("Add" :> "+") @@ ("Sub" :> "-") @@ ("Mult" :> "*") @@ ("Div" :> "/") @@
            ("FloorDiv" :> "/") @@ ("Mod" :> "%") @@ ("Pow" :> "Math.Pow") @@
            ("LShift" :> "<<") @@ ("RShift" :> ">>") @@ ("BitOr" :> "|") @@
            ("BitXor" :> "^") @@ ("BitAnd" :> "&"), op, "?")

get_unary_operator(op) ==
    DictGet(("UAdd" :> "+") @@ ("USub" :> "-") @@ ("Not" :> "!") @@ ("Invert" :> "~"), op, "?")

get_comparison_operator(op) ==
    DictGet(("Eq" :> "==") @@ ("NotEq" :> "!=") @@ ("Lt" :> "<") @@ ("LtE" :> "<=") @@
            ("Gt" :> ">") @@ ("GtE" :> ">=") @@ ("Is" :> "==") @@ ("IsNot" :> "!=") @@
            ("In" :> ".Contains") @@ ("NotIn" :> "!.Contains"), op, "?")

(***************************************************************************)
(* Expression translator.  visit_expr(node) is the text that               *)
(* self.visit_expr(node) returns; Raises(node) tells whether that call     *)
(* raises instead of returning.                                            *)
(***************************************************************************)
RECURSIVE visit_expr(_), visit_BinOp(_), visit_UnaryOp(_), visit_Compare(_),
          visit_BoolOp(_), visit_Call(_), visit_Attribute(_), visit_Subscript(_),
          visit_List(_), visit_Dict(_), visit_Set(_), visit_Tuple(_),
          visit_ListComp(_), visit_DictComp(_), visit_SetComp(_),
          visit_JoinedStr(_), visit_FormattedValue(_), Raises(_)

\* [self.visit_expr(e) for e in exprs]
VisitAll(exprs) == [i \in 1..Len(exprs) |-> visit_expr(exprs[i])]

visit_Constant(node) ==
    IF node.vtype = "str" THEN <<"\"" \o node.sval \o "\"">>
    ELSE IF node.vtype = "bool" THEN <<IF node.bval THEN "true" ELSE "false">>
    ELSE IF node.vtype = "NoneType" THEN <<"null">>
    ELSE IF node.vtype = "int" THEN <<ToString(node.ival)>>
    ELSE <<node.fval>>

visit_Name(node) == <<DictGet(type_mapping, node.id, node.id)>>

visit_BinOp(node) ==
    LET left == visit_expr(node.left)
        right == visit_expr(node.right)
        op == get_operator(node.op)
    IN <<"(">> \o left \o <<" ", op, " ">> \o right \o <<")">>

visit_UnaryOp(node) ==
    LET operand == visit_expr(node.operand)
        op == get_unary_operator(node.op)
    IN <<op>> \o operand

visit_Compare(node) ==
    LET left == visit_expr(node.left)
        n == IF Len(node.ops) < Len(node.comparators) THEN Len(node.ops)
             ELSE Len(node.comparators)
        comparisons == [i \in 1..n |->
            LET right == visit_expr(node.comparators[i])
                op_str == get_comparison_operator(node.ops[i])
            IN IF i = 1 THEN left \o <<" ", op_str, " ">> \o right
               ELSE <<op_str, " ">> \o right]
    IN <<"(">> \o JoinToks(comparisons, " && ") \o <<")">>

visit_BoolOp(node) ==
    LET op == IF node.op = "And" THEN "&&" ELSE "||"
        values == VisitAll(node.values)
    IN <<"(">> \o JoinToks(values, " " \o op \o " ") \o <<")">>

visit_Call(node) ==
    IF node.func.kind = "Name" THEN
        LET func_name == node.func.id IN
        IF func_name \in DOMAIN function_mapping THEN
            LET cs_func == function_mapping[func_name]
                args == VisitAll(node.args)
            IN IF func_name = "print" THEN
                   <<"Console.WriteLine", "(">> \o JoinToks(args, ", ") \o <<")">>
               ELSE IF func_name \in {"len", "sum", "max", "min", "any", "all"} THEN
                   IF args # <<>> THEN
                       args[1] \o <<".", cs_func, "(">> \o JoinToks(Tail(args), ", ") \o <<")">>
                   ELSE <<cs_func, "(", ")">>
               ELSE IF func_name = "range" THEN
                   IF Len(args) = 1 THEN
                       <<"Enumerable.Range", "(", "0", ", ">> \o args[1] \o <<")">>
                   ELSE IF Len(args) = 2 THEN
                       <<"Enumerable.Range", "(">> \o args[1] \o <<", ">> \o args[2]
                           \o <<" - ">> \o args[1] \o <<")">>
                   ELSE IF Len(args) >= 3 THEN
                       <<"Enumerable.Range", "(">> \o args[1] \o <<", ">> \o args[2]
                           \o <<" - ">> \o args[1] \o <<")", ".Where((x, i) => i % ">>
                           \o args[3] \o <<" == 0)">>
                   ELSE <<"IndexError">>     \* args[0] of an empty list: see Raises
               ELSE <<cs_func, "(">> \o JoinToks(args, ", ") \o <<")">>
        ELSE
            LET args == VisitAll(node.args)
            IN <<func_name, "(">> \o JoinToks(args, ", ") \o <<")">>
    ELSE IF node.func.kind = "Attribute" THEN
        LET obj == visit_expr(node.func.value)
            args == VisitAll(node.args)
            method == IF node.func.attr \in DOMAIN method_mapping
                      THEN method_mapping[node.func.attr] ELSE node.func.attr
        IN obj \o <<".", method, "(">> \o JoinToks(args, ", ") \o <<")">>
    ELSE
        LET func == visit_expr(node.func)
            args == VisitAll(node.args)
        IN func \o <<"(">> \o JoinToks(args, ", ") \o <<")">>

visit_Attribute(node) ==
    LET obj == visit_expr(node.value) IN obj \o <<".", node.attr>>

visit_Subscript(node) ==
    LET obj == visit_expr(node.value) IN
    IF node.slice.kind = "Slice" THEN
        LET start == IF node.slice.lower # NoNode THEN visit_expr(node.slice.lower) ELSE <<"0">>
            stop == IF node.slice.upper # NoNode THEN visit_expr(node.slice.upper)
                    ELSE obj \o <<".Count">>
        IN obj \o <<".Skip(">> \o start \o <<").Take(">> \o stop \o <<" - ">> \o start \o <<")">>
    ELSE
        LET index == visit_expr(node.slice) IN obj \o <<"[">> \o index \o <<"]">>

visit_List(node) ==
    <<"new List<object> {">> \o JoinToks(VisitAll(node.elts), ", ") \o <<"}">>

visit_Dict(node) ==
    LET n == IF Len(node.keys) < Len(node.values) THEN Len(node.keys) ELSE Len(node.values)
        items == [i \in 1..n |->
            <<"[">> \o visit_expr(node.keys[i]) \o <<"] = ">> \o visit_expr(node.values[i])]
    IN <<"new Dictionary<object, object> {">> \o JoinToks(items, ", ") \o <<"}">>

visit_Set(node) ==
    <<"new HashSet<object> {">> \o JoinToks(VisitAll(node.elts), ", ") \o <<"}">>

visit_Tuple(node) ==
    IF Len(node.elts) <= 8 THEN <<"(">> \o JoinToks(VisitAll(node.elts), ", ") \o <<")">>
    ELSE <<"new object[] {">> \o JoinToks(VisitAll(node.elts), ", ") \o <<"}">>

\* node.generators[0].target.id if it is a Name, else the default
CompTarget(node) ==
    IF node.generators[1].target.kind = "Name" THEN node.generators[1].target.id ELSE "x"

\* the if clauses of all generators, in the order the two nested loops meet them
RECURSIVE AllIfs(_)
AllIfs(generators) ==
    IF generators = <<>> THEN <<>> ELSE Head(generators).ifs \o AllIfs(Tail(generators))

visit_ListComp(node) ==
    LET iter_expr == visit_expr(node.generators[1].iter)
        target == CompTarget(node)
        element_expr == visit_expr(node.elt)
        ifs == AllIfs(node.generators)
        chain ==
            IF ifs = <<>> THEN
                iter_expr \o <<".Select(", target, " => ">> \o element_expr \o <<")">>
            ELSE
                \* every clause overwrites the local result: the last one stands
                iter_expr \o <<".Where(", target, " => ">> \o visit_expr(ifs[Len(ifs)])
                    \o <<")", ".Select(", target, " => ">> \o element_expr \o <<")">>
    IN chain \o <<".ToList()">>

visit_DictComp(node) ==
    LET iter_expr == visit_expr(node.generators[1].iter)
        target == CompTarget(node)
        key_expr == visit_expr(node.key)
        value_expr == visit_expr(node.value)
    IN iter_expr \o <<".ToDictionary(", target, " => ">> \o key_expr
           \o <<", ", target, " => ">> \o value_expr \o <<")">>

visit_SetComp(node) ==
    LET iter_expr == visit_expr(node.generators[1].iter)
        target == CompTarget(node)
        element_expr == visit_expr(node.elt)
    IN <<"new HashSet<object>(">> \o iter_expr \o <<".Select(", target, " => ">>
           \o element_expr \o <<"))">>

visit_JoinedStr(node) ==
    LET parts == [i \in 1..Len(node.values) |->
            IF node.values[i].kind = "Constant" THEN <<node.values[i].sval>>
            ELSE IF node.values[i].kind = "FormattedValue"
                 THEN <<"{">> \o visit_expr(node.values[i].value) \o <<"}">>
            ELSE <<>>]
    IN <<"$\"">> \o JoinToks(parts, "") \o <<"\"">>

visit_FormattedValue(node) == <<"{">> \o visit_expr(node.value) \o <<"}">>

\* the kinds visit_expr has a branch for; the same kinds have a visit_<kind> method
ExprHandlers == {"Constant", "Name", "BinOp", "UnaryOp", "Compare", "Call", "Attribute",
                 "Subscript", "List", "Dict", "Set", "Tuple", "ListComp", "DictComp",
                 "SetComp", "BoolOp", "JoinedStr", "FormattedValue"}

visit_expr(node) ==
    CASE node.kind = "Constant" -> visit_Constant(node)
      [] node.kind = "Name" -> visit_Name(node)
      [] node.kind = "BinOp" -> visit_BinOp(node)
      [] node.kind = "UnaryOp" -> visit_UnaryOp(node)
      [] node.kind = "Compare" -> visit_Compare(node)
      [] node.kind = "Call" -> visit_Call(node)
      [] node.kind = "Attribute" -> visit_Attribute(node)
      [] node.kind = "Subscript" -> visit_Subscript(node)
      [] node.kind = "List" -> visit_List(node)
      [] node.kind = "Dict" -> visit_Dict(node)
      [] node.kind = "Set" -> visit_Set(node)
      [] node.kind = "Tuple" -> visit_Tuple(node)
      [] node.kind = "ListComp" -> visit_ListComp(node)
      [] node.kind = "DictComp" -> visit_DictComp(node)
      [] node.kind = "SetComp" -> visit_SetComp(node)
      [] node.kind = "BoolOp" -> visit_BoolOp(node)
      [] node.kind = "JoinedStr" -> visit_JoinedStr(node)
      [] node.kind = "FormattedValue" -> visit_FormattedValue(node)
      [] OTHER -> <<"/* Unsupported expression: ", node.kind, " */">>

\* the sub-expressions that the handler of node passes to visit_expr
Evaluated(node) ==
    CASE node.kind = "BinOp" -> <<node.left, node.right>>
      [] node.kind = "UnaryOp" -> <<node.operand>>
      [] node.kind = "Compare" -> <<node.left>> \o node.comparators
      [] node.kind = "BoolOp" -> node.values
      [] node.kind = "Call" ->
            IF node.func.kind = "Name" THEN node.args
            ELSE IF node.func.kind = "Attribute" THEN <<node.func.value>> \o node.args
            ELSE <<node.func>> \o node.args
      [] node.kind = "Attribute" -> <<node.value>>
      [] node.kind = "Subscript" ->
            IF node.slice.kind = "Slice" THEN <<node.value>> \o Opt(node.slice.lower) \o Opt(node.slice.upper)
            ELSE <<node.value, node.slice>>
      [] node.kind \in {"List", "Set", "Tuple"} -> node.elts
      [] node.kind = "Dict" -> node.keys \o node.values
      [] node.kind = "ListComp" ->
            <<node.generators[1].iter, node.elt>> \o AllIfs(node.generators)
      [] node.kind = "DictComp" -> <<node.generators[1].iter, node.key, node.value>>
      [] node.kind = "SetComp" -> <<node.generators[1].iter, node.elt>>
      [] node.kind = "JoinedStr" ->
            SelectSeq(node.values, LAMBDA v : v.kind = "FormattedValue")
      [] node.kind = "FormattedValue" -> <<node.value>>
      [] OTHER -> <<>>

\* args[0] at line 614 raises IndexError when range is called without positional arguments
Raises(node) ==
    \/ /\ node.kind = "Call"
       /\ node.func.kind = "Name"
       /\ node.func.id = "range"
       /\ Len(node.args) = 0
    \/ \E i \in 1..Len(Evaluated(node)) : Raises(Evaluated(node)[i])

(***************************************************************************)
(* Type helpers                                                            *)
(***************************************************************************)
infer_type(node) ==
    IF node.kind = "Constant" THEN
        \* isinstance(True, int) holds in Python: the int test also takes booleans
        IF node.vtype \in {"int", "bool"} THEN "int"
        ELSE IF node.vtype = "float" THEN "double"
        ELSE IF node.vtype = "str" THEN "string"
        ELSE IF node.vtype = "NoneType" THEN "object"
        ELSE "var"
    ELSE IF node.kind = "List" THEN "List<object>"
    ELSE IF node.kind = "Dict" THEN "Dictionary<object, object>"
    ELSE IF node.kind = "Set" THEN "HashSet<object>"
    ELSE IF /\ node.kind = "Call"
            /\ node.func.kind = "Name"
            /\ node.func.id \in {"int", "float", "str", "bool"}
         THEN type_mapping[node.func.id]
    ELSE "var"

get_type_annotation(annotation) ==
    IF annotation.kind = "Name" THEN DictGet(type_mapping, annotation.id, annotation.id)
    ELSE IF annotation.kind = "Constant" THEN
        \* str(annotation.value)
        IF annotation.vtype = "str" THEN annotation.sval
        ELSE IF annotation.vtype = "bool" THEN (IF annotation.bval THEN "True" ELSE "False")
        ELSE IF annotation.vtype = "NoneType" THEN "None"
        ELSE IF annotation.vtype = "int" THEN ToString(annotation.ival)
        ELSE annotation.fval
    ELSE "object"

get_parameters(args) ==
    LET params == [i \in 1..Len(args) |->
            LET param_type == IF args[i].annotation # NoNode
                              THEN get_type_annotation(args[i].annotation)
                              ELSE "object"
            IN <<param_type, " ", args[i].arg>>]
    IN JoinToks(params, ", ")

(***************************************************************************)
(* Instructions: the steps a handler performs, in the order of its code.   *)
(*   visit     self.visit(node)                                            *)
(*   add_line  evaluate the expressions `uses` with visit_expr, then       *)
(*             self.add_line(text)                                         *)
(*   eval      evaluate the expressions `uses`, keep nothing               *)
(*   indent    self.indent_level += by                                     *)
(*   set_class self.in_class = flag; self.current_class = name             *)
(***************************************************************************)
Visit(node) == [op |-> "visit", node |-> node]
AddLine(uses, toks) == [op |-> "add_line", uses |-> uses, toks |-> toks]
Line(text) == AddLine(<<>>, <<text>>)
Blank == AddLine(<<>>, <<>>)
Eval(uses) == [op |-> "eval", uses |-> uses]
Indent(by) == [op |-> "indent", by |-> by]
SetClass(flag, name) == [op |-> "set_class", flag |-> flag, name |-> name]

\* for child in body: self.visit(child)
VisitEach(body) == [i \in 1..Len(body) |-> Visit(body[i])]

\* a block that emits its closing brace before it leaves the level of its body
Block_ClosesBeforeDedent(body) ==
    <<Line("{"), Indent(1)>> \o VisitEach(body) \o <<Line("}"), Indent(-1)>>

\* add_line("{"); indent_level += 1; the body; indent_level -= 1; add_line("}")
Block(body) == <<Line("{"), Indent(1)>> \o VisitEach(body) \o <<Indent(-1), Line("}")>>

(***************************************************************************)
(* Statement translator: the instruction sequence of each handler          *)
(***************************************************************************)
HasKind(body, kind) == \E i \in 1..Len(body) : body[i].kind = kind

visit_Module(node) ==
    LET has_functions == HasKind(node.body, "FunctionDef")
        has_classes == HasKind(node.body, "ClassDef")
    IN <<Line("using System;"), Line("using System.Collections.Generic;"),
         Line("using System.Linq;"), Line("using System.IO;"), Blank,
         Line("namespace PythonTranslated"), Line("{"), Indent(1)>>
       \o (IF has_functions /\ ~has_classes
           THEN <<Line("public class Program"), Line("{"), Indent(1)>> ELSE <<>>)
       \o VisitEach(node.body)
       \o (IF has_functions /\ ~has_classes THEN <<Indent(-1), Line("}")>> ELSE <<>>)
       \o <<Indent(-1), Line("}")>>

\* visit_ClassDef that clears the flag after the body and keeps the name
visit_ClassDef_KeepsName(node) ==
    LET bases == IF node.bases # <<>>
                 THEN <<" : ">> \o JoinToks(VisitAll(node.bases), ", ") ELSE <<>>
    IN <<Blank, AddLine(node.bases, <<"public class ", node.name>> \o bases),
         Line("{"), Indent(1), SetClass(TRUE, Some(node.name))>>
       \o VisitEach(node.body)
       \o <<SetClass(FALSE, Some(node.name)), Indent(-1), Line("}")>>

visit_ClassDef(node) ==
    LET bases == IF node.bases # <<>>
                 THEN <<" : ">> \o JoinToks(VisitAll(node.bases), ", ") ELSE <<>>
    IN <<Blank, AddLine(node.bases, <<"public class ", node.name>> \o bases),
         Line("{"), Indent(1), SetClass(TRUE, Some(node.name))>>
       \o VisitEach(node.body)
       \o <<SetClass(FALSE, None), Indent(-1), Line("}")>>

\* the handler reads self.in_class and self.current_class when it starts
visit_FunctionDef(node, inClass, currentClass) ==
    LET params == get_parameters(node.args)
        signature ==
            IF inClass /\ node.name = "__init__" THEN
                <<"public ", IF currentClass = None THEN "None" ELSE currentClass[1], "(">>
                    \o params \o <<")">>
            ELSE
                LET access == IF inClass THEN "public" ELSE "public static"
                    return_type == IF node.returns # NoNode
                                   THEN get_type_annotation(node.returns) ELSE "void"
                IN <<access, " ", return_type, " ", node.name, "(">> \o params \o <<")">>
    IN <<Blank, AddLine(<<>>, signature)>> \o Block(node.body)

visit_Return(node) ==
    IF node.value # NoNode
    THEN <<AddLine(<<node.value>>, <<"return ">> \o visit_expr(node.value) \o <<";">>)>>
    ELSE <<Line("return;")>>

visit_Assign(node) ==
    IF Len(node.targets) = 1 THEN
        LET target == node.targets[1]
            value == visit_expr(node.value)
        IN IF target.kind = "Name" THEN
               <<AddLine(<<node.value>>,
                         <<infer_type(node.value), " ", target.id, " = ">> \o value \o <<";">>)>>
           ELSE IF target.kind = "Attribute" THEN
               <<AddLine(<<node.value, target.value>>,
                         visit_expr(target.value) \o <<".", target.attr, " = ">>
                             \o value \o <<";">>)>>
           ELSE IF target.kind = "Subscript" THEN
               <<AddLine(<<node.value, target.value, target.slice>>,
                         visit_expr(target.value) \o <<"[">> \o visit_expr(target.slice)
                             \o <<"] = ">> \o value \o <<";">>)>>
           ELSE <<Eval(<<node.value>>)>>
    ELSE <<>>

visit_AnnAssign(node) ==
    IF node.target.kind = "Name" THEN
        LET var_type == get_type_annotation(node.annotation)
            var_name == node.target.id
        IN IF node.value # NoNode THEN
               <<AddLine(<<node.value>>,
                         <<var_type, " ", var_name, " = ">> \o visit_expr(node.value) \o <<";">>)>>
           ELSE <<AddLine(<<>>, <<var_type, " ", var_name, ";">>)>>
    ELSE <<>>

visit_AugAssign(node) ==
    <<AddLine(<<node.target, node.value>>,
              visit_expr(node.target) \o <<" ", get_operator(node.op), "= ">>
                  \o visit_expr(node.value) \o <<";">>)>>

\* visit_If without the `self.indent_level -= 1` that ends the else block
visit_If_ElseNotDedented(node) ==
    <<AddLine(<<node.test>>, <<"if (">> \o visit_expr(node.test) \o <<")">>)>>
    \o Block(node.body)
    \o (IF node.orelse # <<>> THEN
            IF Len(node.orelse) = 1 /\ node.orelse[1].kind = "If"
            THEN <<Line("else"), Visit(node.orelse[1])>>
            ELSE <<Line("else"), Line("{"), Indent(1)>> \o VisitEach(node.orelse) \o <<Line("}")>>
        ELSE <<>>)

\* visit_If without the elif case: a lone If of the else branch gets a block as well
visit_If_ElifBraced(node) ==
    <<AddLine(<<node.test>>, <<"if (">> \o visit_expr(node.test) \o <<")">>)>>
    \o Block(node.body)
    \o (IF node.orelse # <<>> THEN <<Line("else")>> \o Block(node.orelse) ELSE <<>>)

visit_If(node) ==
    <<AddLine(<<node.test>>, <<"if (">> \o visit_expr(node.test) \o <<")">>)>>
    \o Block(node.body)
    \o (IF node.orelse # <<>> THEN
            IF Len(node.orelse) = 1 /\ node.orelse[1].kind = "If"
            THEN <<Line("else"), Visit(node.orelse[1])>>
            ELSE <<Line("else")>> \o Block(node.orelse)
        ELSE <<>>)

visit_While(node) ==
    <<AddLine(<<node.test>>, <<"while (">> \o visit_expr(node.test) \o <<")">>)>>
    \o Block(node.body)

\* visit_For whose two-argument form starts the loop at 0
visit_For_StartIgnored(node) ==
    LET header ==
        IF node.iter.kind = "Call" /\ node.iter.func.kind = "Name" THEN
            IF node.iter.func.id = "range" THEN
                LET args == node.iter.args
                    target_name == IF node.target.kind = "Name" THEN node.target.id ELSE "i"
                IN IF Len(args) = 1 THEN
                       <<AddLine(args, <<"for (int ", target_name, " = ", "0", "; ",
                                         target_name, " < ">> \o visit_expr(args[1])
                                       \o <<"; ", target_name, "++", ")">>)>>
                   ELSE IF Len(args) = 2 THEN
                       <<AddLine(args, <<"for (int ", target_name, " = ", "0", "; ",
                                         target_name, " < ">> \o visit_expr(args[2])
                                       \o <<"; ", target_name, "++", ")">>)>>
                   ELSE IF Len(args) = 3 THEN
                       <<AddLine(args, <<"for (int ", target_name, " = ">> \o visit_expr(args[1])
                                       \o <<"; ", target_name, " < ">> \o visit_expr(args[2])
                                       \o <<"; ", target_name, " += ">> \o visit_expr(args[3])
                                       \o <<")">>)>>
                   ELSE <<>>
            ELSE <<>>
        ELSE
            LET target_name == IF node.target.kind = "Name" THEN node.target.id ELSE "item"
            IN <<AddLine(<<node.iter>>, <<"foreach (", "var", " ", target_name, " in ">>
                                            \o visit_expr(node.iter) \o <<")">>)>>
    IN header \o Block(node.body)

visit_For(node) ==
    LET header ==
        IF node.iter.kind = "Call" /\ node.iter.func.kind = "Name" THEN
            IF node.iter.func.id = "range" THEN
                LET args == node.iter.args
                    target_name == IF node.target.kind = "Name" THEN node.target.id ELSE "i"
                IN IF Len(args) = 1 THEN
                       <<AddLine(args, <<"for (int ", target_name, " = ", "0", "; ",
                                         target_name, " < ">> \o visit_expr(args[1])
                                       \o <<"; ", target_name, "++", ")">>)>>
                   ELSE IF Len(args) = 2 THEN
                       <<AddLine(args, <<"for (int ", target_name, " = ">> \o visit_expr(args[1])
                                       \o <<"; ", target_name, " < ">> \o visit_expr(args[2])
                                       \o <<"; ", target_name, "++", ")">>)>>
                   ELSE IF Len(args) = 3 THEN
                       <<AddLine(args, <<"for (int ", target_name, " = ">> \o visit_expr(args[1])
                                       \o <<"; ", target_name, " < ">> \o visit_expr(args[2])
                                       \o <<"; ", target_name, " += ">> \o visit_expr(args[3])
                                       \o <<")">>)>>
                   ELSE <<>>
            ELSE <<>>
        ELSE
            LET target_name == IF node.target.kind = "Name" THEN node.target.id ELSE "item"
            IN <<AddLine(<<node.iter>>, <<"foreach (", "var", " ", target_name, " in ">>
                                            \o visit_expr(node.iter) \o <<")">>)>>
    IN header \o Block(node.body)

visit_Break(node) == <<Line("break;")>>

visit_Continue(node) == <<Line("continue;")>>

\* visit_Try that emits the finally block before the catch clauses
visit_Try_FinallyBeforeCatch(node) ==
    <<Line("try")>> \o Block(node.body)
    \o (IF node.finalbody # <<>> THEN <<Line("finally")>> \o Block(node.finalbody) ELSE <<>>)
    \o VisitEach(node.handlers)

visit_Try(node) ==
    <<Line("try")>> \o Block(node.body)
    \o VisitEach(node.handlers)
    \o (IF node.finalbody # <<>> THEN <<Line("finally")>> \o Block(node.finalbody) ELSE <<>>)

\* visit_ExceptHandler that drops the name bound by `as`
visit_ExceptHandler_NameDropped(node) ==
    (IF node.type # NoNode THEN
        LET rendered == visit_expr(node.type)
            key == Concat(rendered)
            exception_type == IF key \in DOMAIN exception_mapping
                              THEN <<exception_mapping[key]>> ELSE rendered
        IN <<AddLine(<<node.type>>, <<"catch (">> \o exception_type \o <<")">>)>>
     ELSE <<Line("catch (Exception)")>>)
    \o Block(node.body)

\* visit_ExceptHandler whose table lookup falls back to Exception on a miss
visit_ExceptHandler_MissIsException(node) ==
    (IF node.type # NoNode THEN
        LET rendered == visit_expr(node.type)
            key == Concat(rendered)
            exception_type == IF key \in DOMAIN exception_mapping
                              THEN <<exception_mapping[key]>> ELSE <<"Exception">>
        IN IF node.name # None
           THEN <<AddLine(<<node.type>>, <<"catch (">> \o exception_type \o <<" ", node.name[1], ")">>)>>
           ELSE <<AddLine(<<node.type>>, <<"catch (">> \o exception_type \o <<")">>)>>
     ELSE <<Line("catch (Exception)")>>)
    \o Block(node.body)

visit_ExceptHandler(node) ==
    (IF node.type # NoNode THEN
        LET rendered == visit_expr(node.type)
            key == Concat(rendered)
            exception_type == IF key \in DOMAIN exception_mapping
                              THEN <<exception_mapping[key]>> ELSE rendered
        IN IF node.name # None
           THEN <<AddLine(<<node.type>>, <<"catch (">> \o exception_type \o <<" ", node.name[1], ")">>)>>
           ELSE <<AddLine(<<node.type>>, <<"catch (">> \o exception_type \o <<")">>)>>
     ELSE <<Line("catch (Exception)")>>)
    \o Block(node.body)

visit_Raise(node) ==
    IF node.exc # NoNode
    THEN <<AddLine(<<node.exc>>, <<"throw new ">> \o visit_expr(node.exc) \o <<";">>)>>
    ELSE <<Line("throw;")>>

visit_Import(node) ==
    [i \in 1..Len(node.names) |-> AddLine(<<>>, <<"// import ", node.names[i]>>)]

visit_ImportFrom(node) ==
    IF node.module # None THEN
        [i \in 1..Len(node.names) |->
            AddLine(<<>>, <<"// from ", node.module[1], " import ", node.names[i]>>)]
    ELSE <<>>

visit_Expr(node) == <<AddLine(<<node.value>>, visit_expr(node.value) \o <<";">>)>>

visit_Pass(node) == <<Line("// pass")>>

(***************************************************************************)
(* Dispatch: NodeVisitor.visit looks up visit_<kind> and falls back to     *)
(* generic_visit, which visits the child nodes in field order.             *)
(***************************************************************************)
StmtHandlers == {"Module", "ClassDef", "FunctionDef", "Return", "Assign", "AnnAssign",
                 "AugAssign", "If", "While", "For", "Break", "Continue", "Try",
                 "ExceptHandler", "Raise", "Import", "ImportFrom", "Expr", "Pass"}

RECURSIVE FlattenSeq(_)
FlattenSeq(seqs) == IF seqs = <<>> THEN <<>> ELSE Head(seqs) \o FlattenSeq(Tail(seqs))

\* ast.iter_child_nodes(node): the child nodes, in the order of node._fields
iter_child_nodes(node) ==
    CASE node.kind = "Module" -> node.body
      [] node.kind = "ClassDef" -> node.bases \o node.body
      [] node.kind = "FunctionDef" ->
            FlattenSeq([i \in 1..Len(node.args) |-> Opt(node.args[i].annotation)])
                \o node.body \o Opt(node.returns)
      [] node.kind = "Return" -> Opt(node.value)
      [] node.kind = "Assign" -> node.targets \o <<node.value>>
      [] node.kind = "AugAssign" -> <<node.target, node.value>>
      [] node.kind = "AnnAssign" -> <<node.target, node.annotation>> \o Opt(node.value)
      [] node.kind \in {"For"} -> <<node.target, node.iter>> \o node.body \o node.orelse
      [] node.kind \in {"While", "If"} -> <<node.test>> \o node.body \o node.orelse
      [] node.kind = "With" -> node.items \o node.body
      [] node.kind = "withitem" -> <<node.context_expr>> \o Opt(node.optional_vars)
      [] node.kind = "Raise" -> Opt(node.exc)
      [] node.kind = "Try" -> node.body \o node.handlers \o node.orelse \o node.finalbody
      [] node.kind = "ExceptHandler" -> Opt(node.type) \o node.body
      [] node.kind = "Assert" -> <<node.test>> \o Opt(node.msg)
      [] node.kind = "Delete" -> node.targets
      [] node.kind = "Expr" -> <<node.value>>
      [] node.kind = "BoolOp" -> node.values
      [] node.kind = "BinOp" -> <<node.left, node.right>>
      [] node.kind = "UnaryOp" -> <<node.operand>>
      [] node.kind = "Lambda" -> <<node.body>>
      [] node.kind = "IfExp" -> <<node.test, node.body, node.orelse>>
      [] node.kind = "Dict" -> node.keys \o node.values
      [] node.kind \in {"Set", "List", "Tuple"} -> node.elts
      [] node.kind \in {"ListComp", "SetComp"} ->
            <<node.elt>> \o FlattenSeq([i \in 1..Len(node.generators) |->
                <<node.generators[i].target, node.generators[i].iter>>
                    \o node.generators[i].ifs])
      [] node.kind = "DictComp" ->
            <<node.key, node.value>> \o FlattenSeq([i \in 1..Len(node.generators) |->
                <<node.generators[i].target, node.generators[i].iter>>
                    \o node.generators[i].ifs])
      [] node.kind = "Compare" -> <<node.left>> \o node.comparators
      [] node.kind = "Call" -> <<node.func>> \o node.args
      [] node.kind = "FormattedValue" -> <<node.value>>
      [] node.kind = "JoinedStr" -> node.values
      [] node.kind = "Attribute" -> <<node.value>>
      [] node.kind = "Subscript" -> <<node.value, node.slice>>
      [] node.kind = "Slice" -> Opt(node.lower) \o Opt(node.upper)
      [] OTHER -> <<>>

\* a generic_visit that passes the node itself to self.visit again
generic_visit_VisitsSelf(node) == <<Visit(node)>>

generic_visit(node) == VisitEach(iter_child_nodes(node))

\* the instructions of the method that self.visit(node) calls
Handler(node, inClass, currentClass) ==
    CASE node.kind = "Module" -> visit_Module(node)
      [] node.kind = "ClassDef" -> visit_ClassDef(node)
      [] node.kind = "FunctionDef" -> visit_FunctionDef(node, inClass, currentClass)
      [] node.kind = "Return" -> visit_Return(node)
      [] node.kind = "Assign" -> visit_Assign(node)
      [] node.kind = "AnnAssign" -> visit_AnnAssign(node)
      [] node.kind = "AugAssign" -> visit_AugAssign(node)
      [] node.kind = "If" -> visit_If(node)
      [] node.kind = "While" -> visit_While(node)
      [] node.kind = "For" -> visit_For(node)
      [] node.kind = "Break" -> visit_Break(node)
      [] node.kind = "Continue" -> visit_Continue(node)
      [] node.kind = "Try" -> visit_Try(node)
      [] node.kind = "ExceptHandler" -> visit_ExceptHandler(node)
      [] node.kind = "Raise" -> visit_Raise(node)
      [] node.kind = "Import" -> visit_Import(node)
      [] node.kind = "ImportFrom" -> visit_ImportFrom(node)
      [] node.kind = "Expr" -> visit_Expr(node)
      [] node.kind = "Pass" -> visit_Pass(node)
      \* visit_Name, visit_Call, ...: the text is computed and dropped by the caller
      [] node.kind \in ExprHandlers -> <<Eval(<<node>>)>>
      [] OTHER -> generic_visit(node)

(***************************************************************************)
(* Output text                                                             *)
(***************************************************************************)
RECURSIVE indent(_)
\* "    " * level
indent(level) == IF level <= 0 THEN "" ELSE "    " \o indent(level - 1)

\* the element that add_line appends for the text toks at the given level
add_line(level, toks) ==
    IF Concat(toks) # "" THEN [indent |-> level, toks |-> toks]
    ELSE [indent |-> 0, toks |-> <<>>]

\* the Python string an output element stands for
LineText(line) == indent(line.indent) \o Concat(line.toks)

RECURSIVE JoinLines(_)
\* '\n'.join(translator.output)
JoinLines(lines) ==
    IF lines = <<>> THEN ""
    ELSE IF Len(lines) = 1 THEN LineText(lines[1])
    ELSE LineText(lines[1]) \o "\n" \o JoinLines(Tail(lines))

(***************************************************************************)
(* Syntax trees given to the translator                                    *)
(***************************************************************************)
Name(id) == [kind |-> "Name", id |-> id]
IntConst(n) == [kind |-> "Constant", vtype |-> "int", ival |-> n]
StrConst(t) == [kind |-> "Constant", vtype |-> "str", sval |-> t]
BoolConst(b) == [kind |-> "Constant", vtype |-> "bool", bval |-> b]
Call(func, args) == [kind |-> "Call", func |-> func, args |-> args]
Attribute(value, attr) == [kind |-> "Attribute", value |-> value, attr |-> attr]
BinOp(left, op, right) == [kind |-> "BinOp", left |-> left, op |-> op, right |-> right]
Compare(left, ops, comparators) ==
    [kind |-> "Compare", left |-> left, ops |-> ops, comparators |-> comparators]
TupleExpr(elts) == [kind |-> "Tuple", elts |-> elts]
FloatConst(text) == [kind |-> "Constant", vtype |-> "float", fval |-> text]
NoneConst == [kind |-> "Constant", vtype |-> "NoneType"]
UnaryOp(op, operand) == [kind |-> "UnaryOp", op |-> op, operand |-> operand]
BoolOp(op, values) == [kind |-> "BoolOp", op |-> op, values |-> values]
ListExpr(elts) == [kind |-> "List", elts |-> elts]
SetExpr(elts) == [kind |-> "Set", elts |-> elts]
DictExpr(keys, values) == [kind |-> "Dict", keys |-> keys, values |-> values]
\* one `for target in iter if ... if ...` clause of a comprehension
Comprehension(target, iter, ifs) ==
    [kind |-> "comprehension", target |-> target, iter |-> iter, ifs |-> ifs]
ListComp(elt, generators) == [kind |-> "ListComp", elt |-> elt, generators |-> generators]
\* args: the parameter names
Lambda(args, body) == [kind |-> "Lambda", args |-> args, body |-> body]
\* ctx tells the record from an If, whose fields have the same names
IfExp(test, body, orelse) ==
    [kind |-> "IfExp", test |-> test, body |-> body, orelse |-> orelse, ctx |-> "Load"]

Module(body) == [kind |-> "Module", body |-> body]
ClassDef(name, bases, body) == [kind |-> "ClassDef", name |-> name, bases |-> bases, body |-> body]
Arg(name, annotation) == [kind |-> "arg", arg |-> name, annotation |-> annotation]
FunctionDef(name, args, body, returns) ==
    [kind |-> "FunctionDef", name |-> name, args |-> args, body |-> body, returns |-> returns]
Return(value) == [kind |-> "Return", value |-> value]
Assign(targets, value) == [kind |-> "Assign", targets |-> targets, value |-> value]
AnnAssign(target, annotation, value) ==
    [kind |-> "AnnAssign", target |-> target, annotation |-> annotation, value |-> value]
AugAssign(target, op, value) == [kind |-> "AugAssign", target |-> target, op |-> op, value |-> value]
If(test, body, orelse) == [kind |-> "If", test |-> test, body |-> body, orelse |-> orelse]
While(test, body, orelse) == [kind |-> "While", test |-> test, body |-> body, orelse |-> orelse]
For(target, iter, body, orelse) ==
    [kind |-> "For", target |-> target, iter |-> iter, body |-> body, orelse |-> orelse]
Try(body, handlers, orelse, finalbody) ==
    [kind |-> "Try", body |-> body, handlers |-> handlers, orelse |-> orelse,
     finalbody |-> finalbody]
ExceptHandler(type, name, body) ==
    [kind |-> "ExceptHandler", type |-> type, name |-> name, body |-> body]
Raise(e) == [kind |-> "Raise", exc |-> e]
Import(names) == [kind |-> "Import", names |-> names]
ImportFrom(module, names) == [kind |-> "ImportFrom", module |-> module, names |-> names]
Expr(value) == [kind |-> "Expr", value |-> value]
Pass == [kind |-> "Pass"]
Break == [kind |-> "Break"]
Continue == [kind |-> "Continue"]
With(items, body) == [kind |-> "With", items |-> items, body |-> body]
WithItem(context_expr, optional_vars) ==
    [kind |-> "withitem", context_expr |-> context_expr, optional_vars |-> optional_vars]
AssertStmt(test, msg) == [kind |-> "Assert", test |-> test, msg |-> msg]
Delete(targets) == [kind |-> "Delete", targets |-> targets]
Global(names) == [kind |-> "Global", names |-> names]

\* range(...) with the given integer literals as arguments
RangeCall(ints) == Call(Name("range"), [i \in 1..Len(ints) |-> IntConst(ints[i])])

\* statements without a body
SimpleStmts ==
    { Pass, Break, Continue,
      Assign(<<Name("x")>>, IntConst(1)),                           \* x = 1
      Assign(<<Name("x")>>, Name("float")),                         \* x = float
      Assign(<<Name("a"), Name("b")>>, IntConst(1)),                \* a = b = 1
      Assign(<<TupleExpr(<<Name("a"), Name("b")>>)>>, Name("t")),   \* a, b = t
      Assign(<<Attribute(Name("self"), "n")>>, Name("n")),          \* self.n = n
      Assign(<<Name("x")>>, Lambda(<<"q">>, Name("q"))),                     \* x = lambda: q
      Assign(<<Name("x")>>, IfExp(Name("c"), IntConst(1), IntConst(2))),
      Assign(<<Name("x")>>, RangeCall(<<3>>)),                      \* x = range(3)
      Assign(<<Name("x")>>, RangeCall(<<>>)),                       \* x = range()
      Assign(<<Name("x")>>, RangeCall(<<1, 2, 3, 4>>)),             \* x = range(1, 2, 3, 4)
      Assign(<<Name("x")>>, Call(Name("list"), <<Name("xs")>>)),    \* x = list(xs)
      AnnAssign(Name("x"), Name("int"), IntConst(1)),         \* x: int = 1
      AnnAssign(Name("x"), Name("Foo"), NoNode),                      \* x: Foo
      AnnAssign(Attribute(Name("x"), "y"), Name("int"), IntConst(1)),
      AugAssign(Name("x"), "Add", IntConst(1)),                     \* x += 1
      Import(<<"os", "sys">>),                                      \* import os, sys
      ImportFrom(Some("m"), <<"a">>),                               \* from m import a
      ImportFrom(None, <<"a">>),                                    \* from . import a
      Expr(Call(Name("print"), <<StrConst("hi")>>)),                \* print("hi")
      Expr(Call(Name("f"), <<Name("x")>>)),                         \* f(x)
      Expr(Call(Attribute(Name("xs"), "append"), <<IntConst(1)>>)), \* xs.append(1)
      Expr(Call(Attribute(Name("xs"), "frob"), <<IntConst(1)>>)),   \* xs.frob(1)
      Return(NoNode), Return(BinOp(Name("a"), "Add", Name("b"))),
      Raise(NoNode), Raise(Call(Name("ValueError"), <<StrConst("bad")>>)),
      AssertStmt(Name("x"), NoNode),                                      \* assert x
      AssertStmt(Lambda(<<>>, RangeCall(<<>>)), NoNode),                        \* assert (lambda: range())
      Delete(<<Name("x")>>),                                        \* del x
      Global(<<"x">>) }                                             \* global x

\* x > 0, x < 9: conditions of the comprehensions
Positive == Compare(Name("x"), <<"Gt">>, <<IntConst(0)>>)
Small == Compare(Name("x"), <<"Lt">>, <<IntConst(9)>>)

\* the list comprehensions, with 0, 1, 2 and 3 conditions and with two generators
ListComps ==
    { ListComp(Name("x"), <<Comprehension(Name("x"), Name("xs"), <<>>)>>),
      ListComp(BinOp(Name("x"), "Mult", IntConst(2)),
               <<Comprehension(Name("x"), Name("nums"), <<Positive>>)>>),
      ListComp(Name("x"), <<Comprehension(Name("x"), Name("xs"), <<Positive, Small>>)>>),
      ListComp(Name("x"), <<Comprehension(Name("x"), Name("xs"), <<Positive, Small, Name("ok")>>)>>),
      ListComp(Name("x"), <<Comprehension(TupleExpr(<<Name("k"), Name("v")>>), Name("xs"), <<>>)>>),
      ListComp(Name("x"), <<Comprehension(Name("x"), Name("xs"), <<>>),
                            Comprehension(Name("y"), Name("ys"), <<Name("y")>>)>>) }

\* comparisons with one, two and three operators
Compares ==
    { Compare(Name("a"), <<"Lt">>, <<Name("b")>>),                  \* a < b
      Compare(Name("a"), <<"Lt", "Lt">>, <<Name("b"), Name("c")>>), \* a < b < c
      Compare(IntConst(0), <<"LtE", "Lt", "NotEq">>,                \* 0 <= x < n != y
              <<Name("x"), Name("n"), Name("y")>>) }

\* compound expressions: binary, unary and boolean operations, nested in each other
Compounds ==
    { UnaryOp("USub", Name("x")),                                   \* -x
      UnaryOp("Not", Name("c")),                                    \* not c
      UnaryOp("USub", BinOp(Name("a"), "Add", Name("b"))),          \* -(a + b)
      BinOp(BinOp(Name("a"), "Add", Name("b")), "Mult",             \* (a + b) * (c - d)
            BinOp(Name("c"), "Sub", Name("d"))),
      BinOp(Name("a"), "Mult", UnaryOp("USub", Name("b"))),         \* a * -b
      BoolOp("And", <<Name("a"), Name("b")>>),                      \* a and b
      BoolOp("Or", <<BoolOp("And", <<Name("a"), Name("b")>>),       \* a and b or x > 0
                     Positive>>) }

\* the shapes that infer_type tells apart
Typed ==
    { FloatConst("1.5"), StrConst("s"), BoolConst(TRUE), NoneConst,
      ListExpr(<<IntConst(1)>>), SetExpr(<<IntConst(1)>>),
      DictExpr(<<StrConst("k")>>, <<IntConst(1)>>),
      Call(Name("int"), <<Name("s")>>), Call(Name("float"), <<Name("s")>>),
      Call(Name("str"), <<Name("n")>>), Call(Name("bool"), <<Name("s")>>),
      Call(Name("len"), <<Name("xs")>>), Name("y"), Attribute(Name("o"), "n") }

\* the right-hand sides of the assignments r = <expression>
Exprs == ListComps \cup Compares \cup Compounds \cup Typed

\* a method of a class
Method(name) == FunctionDef(name, <<Arg("self", NoNode)>>, <<Pass>>, NoNode)

\* classes whose methods follow a nested class, and loops and a Try with an else clause
MoreBlocks ==
    { ClassDef("C", <<>>, <<ClassDef("Inner", <<>>, <<Pass>>), Method("__init__"), Method("m")>>),
      ClassDef("D", <<>>, <<Method("__init__"), ClassDef("Inner", <<>>, <<Method("n")>>),
                           Method("k")>>),
      While(Name("c"), <<Pass>>, <<Assign(<<Name("x")>>, IntConst(1))>>),
      For(Name("i"), Name("xs"), <<Pass>>, <<Assign(<<Name("x")>>, IntConst(1))>>),
      Try(<<Pass>>, <<ExceptHandler(NoNode, None, <<Pass>>)>>,
          <<Assign(<<Name("x")>>, IntConst(1))>>, <<>>) }

\* x = range(...) followed by a loop over the same range(...): both lowerings of
\* one call, with the start above the end and with a step
RangeUses ==
    { <<Assign(<<Name("x")>>, RangeCall(a)), For(Name("i"), RangeCall(a), <<Pass>>, <<>>)>> :
        a \in {<<5, 2>>, <<0, 7, 3>>} }

\* if c: pass / else: (if c: pass) ; pass -- an else branch that starts with an If
\* and holds a second statement
ElseBranches ==
    { If(Name("c"), <<Pass>>, <<If(Name("d"), <<Pass>>, <<>>), Pass>>) }

\* try: raise ValueError("bad") / except ValueError as e: raise
RaiseAndCatch ==
    { Try(<<Raise(Call(Name("ValueError"), <<StrConst("bad")>>))>>,
          <<ExceptHandler(Name("ValueError"), Some("e"), <<Raise(NoNode)>>)>>, <<>>, <<>>) }

\* class E: x = range() -- the walk is left by an exception inside a class
FailingClass ==
    { ClassDef("E", <<>>, <<Assign(<<Name("x")>>, RangeCall(<<>>))>>) }

\* the loop headers of the For statements
ForIters ==
    { RangeCall(<<3>>), RangeCall(<<1, 5>>), RangeCall(<<1, 9, 2>>), RangeCall(<<>>),
      RangeCall(<<1, 2, 3, 4>>), Name("xs"), Attribute(Name("o"), "xs"),
      Call(Attribute(Name("d"), "items"), <<>>), Call(Name("enumerate"), <<Name("xs")>>),
      Call(Name("f"), <<Name("xs")>>) }

\* the except clauses of the Try statements
HandlerLists(body) ==
    { <<>>,
      <<ExceptHandler(Name("ValueError"), Some("e"), body)>>,
      <<ExceptHandler(Name("Oops"), None, body), ExceptHandler(NoNode, None, <<Pass>>)>>,
      <<ExceptHandler(Name("float"), None, body)>>,
      <<ExceptHandler(Attribute(Name("os"), "error"), Some("e"), body)>> }

\* every block statement around the given body
Blocks(body) ==
    { If(Name("c"), body, <<>>),
      If(Name("c"), body, <<Pass, Break>>),
      If(Name("c"), <<Pass>>, <<If(Compare(Name("x"), <<"Lt">>, <<IntConst(1)>>), body, <<>>)>>),
      While(Name("c"), body, <<>>),
      While(RangeCall(<<>>), body, <<>>),
      With(<<WithItem(Name("a"), Name("b"))>>, body),
      With(<<WithItem(RangeCall(<<>>), NoNode)>>, body),
      FunctionDef("f", <<>>, body, NoNode),
      FunctionDef("g", <<Arg("a", Name("int")), Arg("b", NoNode)>>, body, Name("Foo")),
      ClassDef("A", <<>>, body),
      ClassDef("B", <<Name("Base")>>,
               <<FunctionDef("__init__", <<Arg("self", NoNode)>>, body, NoNode),
                 FunctionDef("m", <<Arg("self", NoNode)>>, <<Pass>>, NoNode)>>) }
    \cup { For(Name("i"), it, body, <<>>) : it \in ForIters }
    \cup { For(TupleExpr(<<Name("k"), Name("v")>>), it, body, <<>>) :
             it \in {RangeCall(<<3>>), Name("xs")} }
    \cup { Try(body, hs, <<>>, <<>>) : hs \in HandlerLists(body) \ {<<>>} }
    \cup { Try(body, hs, <<>>, <<Pass>>) : hs \in HandlerLists(body) }

\* the block statements used to build deeper nestings
Wrappers(body) ==
    { If(Name("c"), body, <<Pass>>),
      If(Name("c"), <<Pass>>, body),
      For(Name("i"), RangeCall(<<3>>), body, <<>>),
      Try(<<Pass>>, <<ExceptHandler(NoNode, None, body)>>, <<>>, body),
      FunctionDef("f", <<>>, body, NoNode),
      ClassDef("A", <<>>, body) }

RECURSIVE Nested(_)
\* statements nested up to the given depth
Nested(depth) ==
    IF depth = 0 THEN {Pass}
    ELSE LET inner == Nested(depth - 1)
         IN inner \cup UNION { Wrappers(<<s>>) : s \in inner }

\* bodies of several statements at module level
ModuleBodies ==
    { <<>>,
      <<Pass, Assign(<<Name("x")>>, IntConst(1)), Expr(Call(Name("print"), <<Name("x")>>))>>,
      <<Import(<<"os">>), Assign(<<Name("a"), Name("b")>>, IntConst(1)), Pass>>,
      <<FunctionDef("f", <<>>, <<Pass>>, NoNode), FunctionDef("g", <<>>, <<Return(NoNode)>>, NoNode)>>,
      <<ClassDef("A", <<>>, <<Pass>>), FunctionDef("main", <<>>, <<Pass>>, NoNode)>>,
      <<FunctionDef("main", <<>>, <<Pass>>, NoNode), ClassDef("A", <<>>, <<Pass>>)>>,
      <<Assign(<<Name("x")>>, RangeCall(<<>>)), Pass>>,
      <<Pass, Assign(<<Name("x")>>, RangeCall(<<>>))>> }

Trees ==
    { Module(<<s>>) : s \in SimpleStmts }
    \cup { Module(<<s>>) : s \in Blocks(<<Pass>>) }
    \cup { Module(<<s>>) : s \in Blocks(<<Assign(<<Name("x")>>, IntConst(1)), Pass>>) }
    \cup { Module(<<s>>) : s \in Nested(MaxDepth) }
    \cup { Module(body) : body \in ModuleBodies }
    \cup { Module(<<Assign(<<Name("r")>>, e)>>) : e \in Exprs }
    \cup { Module(<<s>>) : s \in MoreBlocks }
    \cup { Module(body) : body \in RangeUses }
    \cup { Module(<<s>>) : s \in ElseBranches }
    \cup { Module(<<s>>) : s \in RaiseAndCatch }
    \cup { Module(<<s>>) : s \in FailingClass }

\* what open/read/ast.parse find for an input path
Inputs ==
    { [status |-> "missing"], [status |-> "unreadable"], [status |-> "syntax_error"] }
    \cup { [status |-> "ok", tree |-> t] : t \in Trees }

(***************************************************************************)
(* State machine: main / translate_file / the walk of the tree             *)
(***************************************************************************)
TranslatorVars == <<translator, output, indent_level, in_class, current_class, stack, visited>>
CallVars == <<caller, runs, input_file, output_file, outfile_before>>

\* an __init__ that leaves the output buffer of the previous translator in place
__init__KeepsOutput ==
    [output |-> output, indent_level |-> 0, in_class |-> FALSE, current_class |-> None]

\* the attributes that PythonToCSharpTranslator.__init__ sets
__init__ == [output |-> <<>>, indent_level |-> 0, in_class |-> FALSE, current_class |-> None]

Init ==
    /\ pc = "idle"
    /\ caller \in {"main", "lib"}
    /\ runs = 0
    /\ input_file = [status |-> "missing"]
    /\ output_file = None
    /\ tree = None
    /\ translator = FALSE
    /\ output = <<>>
    /\ indent_level = 0
    /\ in_class = FALSE
    /\ current_class = None
    /\ stack = <<>>
    /\ visited = <<>>
    /\ exc = None
    /\ csharp_code = None
    /\ result = None
    /\ outfile \in {None, Some("// old")}
    /\ outfile_before = outfile
    /\ exit_status = None

\* main calls translate_file(args.input_file, args.output_file) once;
\* an importing caller calls translate_file(input_file) any number of times
call_translate_file ==
    /\ \/ pc = "idle"
       \/ pc = "returned" /\ caller = "lib"
    /\ runs < MaxRuns
    /\ runs' = runs + 1
    /\ input_file' \in Inputs
    /\ output_file' \in (IF caller = "main" THEN {None, Some("out.cs")} ELSE {None})
    /\ outfile_before' = outfile
    /\ tree' = None
    /\ translator' = FALSE
    /\ exc' = None
    /\ csharp_code' = None
    /\ result' = None
    /\ pc' = "open"
    /\ UNCHANGED <<caller, output, indent_level, in_class, current_class, stack, visited,
                   outfile, exit_status>>

\* a translate_file that opens the output file for writing before it reads the input
open_input_TruncatesOutput ==
    /\ pc = "open"
    /\ IF input_file.status = "missing" THEN exc' = Some("FileNotFoundError") /\ pc' = "except"
       ELSE IF input_file.status = "unreadable" THEN exc' = Some("PermissionError") /\ pc' = "except"
       ELSE exc' = exc /\ pc' = "parse"
    /\ outfile' = IF output_file # None THEN Some("") ELSE outfile
    /\ UNCHANGED <<CallVars, TranslatorVars, tree, csharp_code, result, exit_status>>

\* with open(input_file, 'r') as f: python_code = f.read()
open_input ==
    /\ pc = "open"
    /\ IF input_file.status = "missing" THEN exc' = Some("FileNotFoundError") /\ pc' = "except"
       ELSE IF input_file.status = "unreadable" THEN exc' = Some("PermissionError") /\ pc' = "except"
       ELSE exc' = exc /\ pc' = "parse"
    /\ UNCHANGED <<CallVars, TranslatorVars, tree, csharp_code, result, outfile, exit_status>>

\* tree = ast.parse(python_code)
parse ==
    /\ pc = "parse"
    /\ IF input_file.status = "syntax_error"
       THEN exc' = Some("SyntaxError") /\ pc' = "except" /\ tree' = tree
       ELSE exc' = exc /\ pc' = "construct" /\ tree' = Some(input_file.tree)
    /\ UNCHANGED <<CallVars, TranslatorVars, csharp_code, result, outfile, exit_status>>

\* translator = PythonToCSharpTranslator(), then the call translator.visit(tree)
construct ==
    /\ pc = "construct"
    /\ translator' = TRUE
    /\ output' = __init__.output
    /\ indent_level' = __init__.indent_level
    /\ in_class' = __init__.in_class
    /\ current_class' = __init__.current_class
    /\ stack' = <<Visit(tree[1])>>
    /\ visited' = <<>>
    /\ pc' = "visit"
    /\ UNCHANGED <<CallVars, tree, exc, csharp_code, result, outfile, exit_status>>

Running(op) == pc = "visit" /\ stack # <<>> /\ Head(stack).op = op

\* an exception leaves the walk: the frames are gone, the translator is left as it is
RaiseOut(kind) ==
    /\ exc' = Some(kind)
    /\ pc' = "except"
    /\ stack' = <<>>
    /\ UNCHANGED <<CallVars, tree, translator, output, indent_level, in_class, current_class,
                   visited, csharp_code, result, outfile, exit_status>>

AnyRaises(uses) == \E i \in 1..Len(uses) : Raises(uses[i])

\* self.visit(node) for a node whose kind has a visit_<kind> method
visit ==
    /\ Running("visit")
    /\ Head(stack).node.kind \in StmtHandlers \cup ExprHandlers
    /\ stack' = Handler(Head(stack).node, in_class, current_class) \o Tail(stack)
    /\ visited' = Append(visited, Head(stack).node)
    /\ UNCHANGED <<pc, CallVars, tree, translator, output, indent_level, in_class,
                   current_class, exc, csharp_code, result, outfile, exit_status>>

\* self.visit(node) for a node whose kind has no method: NodeVisitor.generic_visit
visit_generic ==
    /\ Running("visit")
    /\ Head(stack).node.kind \notin StmtHandlers \cup ExprHandlers
    /\ stack' = generic_visit(Head(stack).node) \o Tail(stack)
    /\ visited' = Append(visited, Head(stack).node)
    /\ UNCHANGED <<pc, CallVars, tree, translator, output, indent_level, in_class,
                   current_class, exc, csharp_code, result, outfile, exit_status>>

\* the visit_expr calls of a statement handler, then its self.add_line(...)
\* add_line that puts the line in front of the buffer
emit_line_Prepends ==
    /\ Running("add_line")
    /\ IF AnyRaises(Head(stack).uses) THEN RaiseOut("IndexError")
       ELSE /\ output' = <<add_line(indent_level, Head(stack).toks)>> \o output
            /\ stack' = Tail(stack)
            /\ UNCHANGED <<pc, CallVars, tree, translator, indent_level, in_class,
                           current_class, visited, exc, csharp_code, result, outfile,
                           exit_status>>

emit_line ==
    /\ Running("add_line")
    /\ IF AnyRaises(Head(stack).uses) THEN RaiseOut("IndexError")
       ELSE /\ output' = Append(output, add_line(indent_level, Head(stack).toks))
            /\ stack' = Tail(stack)
            /\ UNCHANGED <<pc, CallVars, tree, translator, indent_level, in_class,
                           current_class, visited, exc, csharp_code, result, outfile,
                           exit_status>>

\* visit_expr calls whose text is not emitted
eval_expr ==
    /\ Running("eval")
    /\ IF AnyRaises(Head(stack).uses) THEN RaiseOut("IndexError")
       ELSE /\ stack' = Tail(stack)
            /\ UNCHANGED <<pc, CallVars, tree, translator, output, indent_level, in_class,
                           current_class, visited, exc, csharp_code, result, outfile,
                           exit_status>>

\* self.indent_level += 1 / self.indent_level -= 1
change_indent ==
    /\ Running("indent")
    /\ indent_level' = indent_level + Head(stack).by
    /\ stack' = Tail(stack)
    /\ UNCHANGED <<pc, CallVars, tree, translator, output, in_class, current_class, visited,
                   exc, csharp_code, result, outfile, exit_status>>

\* self.in_class = ...; self.current_class = ...
set_class ==
    /\ Running("set_class")
    /\ in_class' = Head(stack).flag
    /\ current_class' = Head(stack).name
    /\ stack' = Tail(stack)
    /\ UNCHANGED <<pc, CallVars, tree, translator, output, indent_level, visited, exc,
                   csharp_code, result, outfile, exit_status>>

\* translator.visit(tree) has returned: csharp_code = '\n'.join(translator.output)
join_output ==
    /\ pc = "visit"
    /\ stack = <<>>
    /\ csharp_code' = Some(JoinLines(output))
    /\ pc' = "emit"
    /\ UNCHANGED <<CallVars, TranslatorVars, tree, exc, result, outfile, exit_status>>

\* if output_file: open(output_file, 'w') and f.write(csharp_code)
write_output ==
    /\ pc = "emit"
    /\ output_file # None
    /\ outfile' = csharp_code
    /\ pc' = "return"
    /\ UNCHANGED <<CallVars, TranslatorVars, tree, exc, csharp_code, result, exit_status>>

\* the open of the output file fails, or the write fails after the file was truncated
write_output_fails ==
    /\ pc = "emit"
    /\ output_file # None
    /\ \/ outfile' = outfile
       \/ outfile' = Some("")
    /\ exc' = Some("OSError")
    /\ pc' = "except"
    /\ UNCHANGED <<CallVars, TranslatorVars, tree, csharp_code, result, exit_status>>

\* else: print(csharp_code)
print_output ==
    /\ pc = "emit"
    /\ output_file = None
    /\ pc' = "return"
    /\ UNCHANGED <<CallVars, TranslatorVars, tree, exc, csharp_code, result, outfile,
                   exit_status>>

\* return csharp_code
return_code ==
    /\ pc = "return"
    /\ result' = csharp_code
    /\ pc' = "returned"
    /\ UNCHANGED <<CallVars, TranslatorVars, tree, exc, csharp_code, outfile, exit_status>>

\* except FileNotFoundError / except SyntaxError / except Exception: return None
except_return_None ==
    /\ pc = "except"
    /\ exc # None
    /\ result' = None
    /\ pc' = "returned"
    /\ UNCHANGED <<CallVars, TranslatorVars, tree, exc, csharp_code, outfile, exit_status>>

\* main: if result is None: sys.exit(1); otherwise main returns and the status is 0
main_exit ==
    /\ pc = "returned"
    /\ caller = "main"
    /\ exit_status' = IF result = None THEN Some(1) ELSE Some(0)
    /\ pc' = "exited"
    /\ UNCHANGED <<CallVars, TranslatorVars, tree, exc, csharp_code, result, outfile>>

Next ==
    \/ call_translate_file
    \/ open_input
    \/ parse
    \/ construct
    \/ visit
    \/ visit_generic
    \/ emit_line
    \/ eval_expr
    \/ change_indent
    \/ set_class
    \/ join_output
    \/ write_output
    \/ write_output_fails
    \/ print_output
    \/ return_code
    \/ except_return_None
    \/ main_exit

Spec == Init /\ [][Next]_vars

TypeOK ==
    /\ pc \in {"idle", "open", "parse", "construct", "visit", "emit", "return", "except",
               "returned", "exited"}
    /\ runs \in 0..MaxRuns
    /\ indent_level \in Int
    /\ in_class \in BOOLEAN

(***************************************************************************)
(* Vocabulary of the properties                                            *)
(***************************************************************************)
RECURSIVE AllNodes(_)
\* the node and all its descendants
AllNodes(node) ==
    {node} \cup UNION { AllNodes(iter_child_nodes(node)[i]) : i \in 1..Len(iter_child_nodes(node)) }

\* translator.visit(tree) has returned
WalkReturned == pc = "emit"

\* translator.visit(tree) was left by an exception
WalkRaised == pc = "except" /\ translator /\ csharp_code = None

\* the kinds of the model's trees for which the translator has neither a visit_
\* method nor a branch in visit_expr
NoHandlerKinds == {"With", "Assert", "Delete", "Global", "Lambda", "IfExp"}

HasToken(line, tok) == \E i \in 1..Len(line.toks) : line.toks[i] = tok

BraceLine(line) == line.toks = <<"{">> \/ line.toks = <<"}">>

\* the index of the line that closes the block opened at line open of lines
Closing(lines, open) ==
    LET later == { j \in (open + 1)..Len(lines) :
                     lines[j].toks = <<"}">> /\ lines[j].indent = lines[open].indent }
    IN IF later = {} THEN 0 ELSE CHOOSE j \in later : \A k \in later : j <= k

(***************************************************************************)
(* C1: whenever the tree holds a node of a kind without handler, the run   *)
(* completes without raising and some output line names that kind in an    *)
(* unsupported-construct marker.                                           *)
(***************************************************************************)
C1_UnsupportedKindIsMarked ==
    (tree # None /\ (WalkReturned \/ WalkRaised)) =>
        \A n \in AllNodes(tree[1]) :
            n.kind \in NoHandlerKinds =>
                /\ WalkReturned
                /\ \E i \in 1..Len(output) : HasToken(output[i], n.kind)

(***************************************************************************)
(* C2: the indent level is never negative, and it is 0 again when the      *)
(* Module handler has returned.                                            *)
(***************************************************************************)
C2_IndentBalanced ==
    /\ indent_level >= 0
    /\ WalkReturned => indent_level = 0

\* a walk that went three blocks deep has returned
C2_Witness ==
    /\ WalkReturned
    /\ indent_level = 0
    /\ \E i \in 1..Len(output) : output[i].indent >= 3

(***************************************************************************)
(* C3: a block of N statements yields exactly N statement lines at the     *)
(* level of the block, braces and blank lines left out.  Stated for the    *)
(* body of the Module when it holds only statements without a body.        *)
(***************************************************************************)
BodilessKinds == {"Assign", "AnnAssign", "AugAssign", "Import", "ImportFrom", "Expr", "Pass",
                  "Break", "Continue", "Return", "Raise"}

C3_StatementLines ==
    { i \in 1..Len(output) :
        output[i].indent = 1 /\ output[i].toks # <<>> /\ ~BraceLine(output[i]) }

C3_OneLinePerStatement ==
    (WalkReturned /\ \A i \in 1..Len(tree[1].body) : tree[1].body[i].kind \in BodilessKinds) =>
        Cardinality(C3_StatementLines) = Len(tree[1].body)

(***************************************************************************)
(* C4: a For over anything but range with 1, 2 or 3 arguments gets the     *)
(* header `foreach (var <target> in <iterable>)` right before the opening  *)
(* brace of its body.  Stated for a For that is the only statement of the  *)
(* Module: its header is line 8 and the brace line 9 of the output.        *)
(***************************************************************************)
IsRange123(iter) ==
    /\ iter.kind = "Call"
    /\ iter.func.kind = "Name"
    /\ iter.func.id = "range"
    /\ Len(iter.args) \in {1, 2, 3}

C4_ForeachHeader ==
    (/\ WalkReturned
     /\ Len(tree[1].body) = 1
     /\ tree[1].body[1].kind = "For"
     /\ tree[1].body[1].target.kind = "Name"
     /\ ~IsRange123(tree[1].body[1].iter)) =>
        /\ Len(output) >= 9
        /\ output[8].toks = <<"foreach (", "var", " ", tree[1].body[1].target.id, " in ">>
                                \o visit_expr(tree[1].body[1].iter) \o <<")">>
        /\ output[9].toks = <<"{">>

(***************************************************************************)
(* C5: a For over range with 1, 2 or 3 integer literals gets a counted     *)
(* loop header: range(n) starts at 0, runs below n, steps by one;          *)
(* range(a, b) starts at a, runs below b, steps by one; range(a, b, s)     *)
(* starts at a, runs below b, steps by s.  The block that follows the      *)
(* header holds the lines of the body.                                     *)
(***************************************************************************)
IsLiteralRangeFor(n) ==
    /\ n.kind = "For"
    /\ IsRange123(n.iter)
    /\ \A i \in 1..Len(n.iter.args) :
           n.iter.args[i].kind = "Constant" /\ n.iter.args[i].vtype = "int"

\* start, exclusive bound and step (None: unit step) that the claim gives the loop
C5_Start(n) == IF Len(n.iter.args) = 1 THEN "0" ELSE ToString(n.iter.args[1].ival)
C5_Bound(n) == IF Len(n.iter.args) = 1 THEN ToString(n.iter.args[1].ival)
               ELSE ToString(n.iter.args[2].ival)
C5_Step(n) == IF Len(n.iter.args) = 3 THEN Some(ToString(n.iter.args[3].ival)) ELSE None

\* line i is `for (int v = start; v < bound; v++)` or `... v += step)`
C5_IsHeader(line, start, bound, step) ==
    /\ Len(line.toks) >= 11
    /\ LET v == line.toks[2]
       IN line.toks = <<"for (int ", v, " = ", start, "; ", v, " < ", bound, "; ", v>>
                        \o (IF step = None THEN <<"++">> ELSE <<" += ", step[1]>>) \o <<")">>

C5_CountedLoop ==
    WalkReturned =>
        \A n \in AllNodes(tree[1]) :
            IsLiteralRangeFor(n) =>
                \E i \in 1..(Len(output) - 2) :
                    /\ C5_IsHeader(output[i], C5_Start(n), C5_Bound(n), C5_Step(n))
                    /\ output[i + 1] = [indent |-> output[i].indent, toks |-> <<"{">>]
                    /\ Closing(output, i + 1) > i + 1
                    /\ \A j \in (i + 2)..(Closing(output, i + 1) - 1) :
                           output[j].toks # <<>> => output[j].indent > output[i].indent
                    /\ n.body[1].kind = "Pass" =>
                           output[i + 2] = [indent |-> output[i].indent + 1, toks |-> <<"// pass">>]

\* a loop over range(1, 9, 2) was translated
C5_Witness ==
    /\ WalkReturned
    /\ \E n \in AllNodes(tree[1]) : IsLiteralRangeFor(n) /\ Len(n.iter.args) = 3
    /\ \E i \in 1..Len(output) : C5_IsHeader(output[i], "1", "9", Some("2"))

(***************************************************************************)
(* C6: an identifier that is not a key of a mapping table passes the       *)
(* lookup unchanged and without error: the callee of a call, the method of *)
(* a method call, the exception kind of a catch clause, a name and a name  *)
(* used as annotation appear in the output as they are in the source.      *)
(***************************************************************************)
\* the callee of a call statement, absent from function_mapping, starts its line
C6_CalleeUnchanged(n) ==
    (/\ n.kind = "Expr"
     /\ n.value.kind = "Call"
     /\ n.value.func.kind = "Name"
     /\ n.value.func.id \notin DOMAIN function_mapping) =>
        \E i \in 1..Len(output) :
            Len(output[i].toks) >= 2 /\ output[i].toks[1] = n.value.func.id
                /\ output[i].toks[2] = "("

\* the method of a call statement, absent from method_mapping, is in its line
C6_MethodUnchanged(n) ==
    (/\ n.kind = "Expr"
     /\ n.value.kind = "Call"
     /\ n.value.func.kind = "Attribute"
     /\ n.value.func.attr \notin DOMAIN method_mapping) =>
        \E i \in 1..Len(output) :
            \E k \in 2..(Len(output[i].toks) - 1) :
                /\ output[i].toks[k - 1] = "."
                /\ output[i].toks[k] = n.value.func.attr
                /\ output[i].toks[k + 1] = "("

\* a name absent from type_mapping is rendered as itself, as expression and as annotation
C6_NameUnchanged(n) ==
    (n.kind = "Name" /\ n.id \notin DOMAIN type_mapping) =>
        visit_expr(n) = <<n.id>> /\ get_type_annotation(n) = n.id

\* the declared type of a variable, absent from type_mapping, starts its declaration line
C6_AnnotationUnchanged(n) ==
    (/\ n.kind = "AnnAssign"
     /\ n.target.kind = "Name"
     /\ n.annotation.kind = "Name"
     /\ n.annotation.id \notin DOMAIN type_mapping) =>
        \E i \in 1..Len(output) :
            Len(output[i].toks) >= 3 /\ output[i].toks[1] = n.annotation.id
                /\ output[i].toks[3] = n.target.id

\* the handler n has a catch line that shows the kind as text
C6_CatchShows(n, text) ==
    \E i \in 1..Len(output) :
        Len(output[i].toks) >= 2 /\ output[i].toks[1] = "catch (" /\ output[i].toks[2] = text

C6_IsNamedHandler(n) ==
    n.kind = "ExceptHandler" /\ n.type # NoNode /\ n.type.kind = "Name"

C7_NeverTranslationError == ~WalkRaised

(***************************************************************************)
(* C8: when the input cannot be obtained, the parse fails or the           *)
(* translation raises, translate_file returns None and the output file is  *)
(* as it was before the call; main then exits with status 1; after a parse *)
(* failure no translator exists.                                           *)
(***************************************************************************)
\* the invocation failed before any text was joined
C8_FailedBeforeJoin == exc # None /\ csharp_code = None

C8_FailureLeavesNoOutput ==
    /\ C8_FailedBeforeJoin => outfile = outfile_before
    /\ (C8_FailedBeforeJoin /\ pc \in {"returned", "exited"}) => result = None
    /\ (C8_FailedBeforeJoin /\ pc = "exited") => exit_status = Some(1)
    /\ pc \in {"open", "parse", "construct", "visit"} => outfile = outfile_before
    /\ (exc \in {Some("FileNotFoundError"), Some("PermissionError"), Some("SyntaxError")}
            /\ csharp_code = None) => ~translator

\* main has exited after a translation that raised, the output file being named and present
C8_Witness ==
    /\ pc = "exited"
    /\ WalkRaised \/ (exc = Some("IndexError") /\ translator /\ csharp_code = None)
    /\ output_file # None
    /\ outfile = Some("// old")
    /\ result = None
    /\ exit_status = Some(1)

(***************************************************************************)
(* C9: every run starts with an empty buffer, indent level 0, the class    *)
(* flag false and no class name, and the text of a tree is the text that a *)
(* run from that fresh state gives, whatever was translated before.        *)
(***************************************************************************)
\* one step of the walk on a configuration [stack, output, indent_level, in_class,
\* current_class]; a raise empties the stack
StepCfg(c) ==
    LET top == Head(c.stack) IN
    CASE top.op = "visit" ->
            [c EXCEPT !.stack = Handler(top.node, c.in_class, c.current_class) \o Tail(c.stack)]
      [] top.op = "add_line" ->
            IF AnyRaises(top.uses) THEN [c EXCEPT !.stack = <<>>, !.raised = TRUE]
            ELSE [c EXCEPT !.stack = Tail(c.stack),
                           !.output = Append(c.output, add_line(c.indent_level, top.toks))]
      [] top.op = "eval" ->
            IF AnyRaises(top.uses) THEN [c EXCEPT !.stack = <<>>, !.raised = TRUE]
            ELSE [c EXCEPT !.stack = Tail(c.stack)]
      [] top.op = "indent" ->
            [c EXCEPT !.stack = Tail(c.stack), !.indent_level = c.indent_level + top.by]
      [] top.op = "set_class" ->
            [c EXCEPT !.stack = Tail(c.stack), !.in_class = top.flag, !.current_class = top.name]

RECURSIVE RunCfg(_)
RunCfg(c) == IF c.stack = <<>> THEN c ELSE RunCfg(StepCfg(c))

\* the result of the walk of a tree by a translator in the fresh state
FreshRun(t) ==
    RunCfg([stack |-> <<Visit(t)>>, output |-> <<>>, indent_level |-> 0, in_class |-> FALSE,
            current_class |-> None, raised |-> FALSE])

\* the walk is at its first step
C9_RunStarts == pc = "visit" /\ stack = <<Visit(tree[1])>>

C9_RunsAreIndependent ==
    /\ C9_RunStarts =>
           output = <<>> /\ indent_level = 0 /\ ~in_class /\ current_class = None
    /\ WalkReturned =>
           /\ ~FreshRun(tree[1]).raised
           /\ csharp_code = Some(JoinLines(FreshRun(tree[1]).output))
    /\ WalkRaised => FreshRun(tree[1]).raised /\ output = FreshRun(tree[1]).output

\* a second run has returned in a process whose first translator left lines behind
C9_Witness ==
    /\ runs = 2
    /\ WalkReturned
    /\ Len(output) > 9
    /\ csharp_code = Some(JoinLines(FreshRun(tree[1]).output))

(***************************************************************************)
(* C10: every FunctionDef of the Module body is emitted as a               *)
(* `public static` member inside a type declaration block, never directly  *)
(* inside the namespace block.                                             *)
(***************************************************************************)
C10_IsStaticSignature(line, name) ==
    /\ Len(line.toks) >= 5
    /\ line.toks[1] = "public static"
    /\ line.toks[5] = name

C10_FreeFunctionsInsideType ==
    WalkReturned =>
        \A k \in 1..Len(tree[1].body) :
            tree[1].body[k].kind = "FunctionDef" =>
                \* the signature is two blocks deep: namespace, then a type
                /\ \E i \in 1..Len(output) :
                       /\ C10_IsStaticSignature(output[i], tree[1].body[k].name)
                       /\ output[i].indent = 2
                \* and never one block deep, where only the namespace encloses it
                /\ \A i \in 1..Len(output) :
                       C10_IsStaticSignature(output[i], tree[1].body[k].name) =>
                           output[i].indent >= 2

(***************************************************************************)
(* C11: a list comprehension with k conditions on its first generator is   *)
(* rendered as the iterable, then, only when k >= 1, one filter step whose *)
(* predicate holds all k conditions, then the projection of the element    *)
(* expression, then ToList(); the text is in a line of the output.         *)
(***************************************************************************)
\* sub occurs in toks as a run of adjacent tokens
IsInfix(sub, toks) ==
    \E i \in 0..(Len(toks) - Len(sub)) : SubSeq(toks, i + 1, i + Len(sub)) = sub

\* text starts with the tokens of prefix
StartsWith(text, prefix) ==
    Len(text) >= Len(prefix) /\ SubSeq(text, 1, Len(prefix)) = prefix

\* text ends with the tokens of suffix
EndsWith(text, suffix) ==
    Len(text) >= Len(suffix) /\ SubSeq(text, Len(text) - Len(suffix) + 1, Len(text)) = suffix

\* the projection step and the materializing call of the comprehension n
C11_Projection(n) ==
    <<".Select(", CompTarget(n), " => ">> \o visit_expr(n.elt) \o <<")", ".ToList()">>

C11_IsChain(text, n) ==
    LET iter_expr == visit_expr(n.generators[1].iter)
        ifs == n.generators[1].ifs
        filter == SubSeq(text, Len(iter_expr) + 1, Len(text) - Len(C11_Projection(n)))
    IN /\ Len(text) >= Len(iter_expr) + Len(C11_Projection(n))
       /\ StartsWith(text, iter_expr)
       /\ EndsWith(text, C11_Projection(n))
       /\ ifs = <<>> => filter = <<>>
       /\ ifs # <<>> =>
              /\ StartsWith(filter, <<".Where(", CompTarget(n), " => ">>)
              /\ EndsWith(filter, <<")">>)
              /\ \A j \in 1..Len(ifs) : IsInfix(visit_expr(ifs[j]), filter)

C11_FilterHoldsAllConditions ==
    WalkReturned =>
        \A n \in AllNodes(tree[1]) :
            n.kind = "ListComp" =>
                /\ C11_IsChain(visit_expr(n), n)
                /\ \E i \in 1..Len(output) : IsInfix(visit_expr(n), output[i].toks)

(***************************************************************************)
(* C12: every handler of a translated Try becomes exactly one catch        *)
(* clause.  A declared kind is shown as the value that exception_mapping   *)
(* has for it, or as the kind itself on a miss, with the bound name kept;  *)
(* a handler without kind becomes `catch (Exception)`; the lines of the    *)
(* handler body are inside the block of the clause.                        *)
(***************************************************************************)
\* the handlers of the Try statements that the walk dispatched
C12_Handlers ==
    FlattenSeq([k \in 1..Len(visited) |->
                   IF visited[k].kind = "Try" THEN visited[k].handlers ELSE <<>>])

C12_CatchLines ==
    { i \in 1..Len(output) :
        output[i].toks # <<>> /\ output[i].toks[1] \in {"catch (", "catch (Exception)"} }

\* the text of the catch line for the handler h of declared kind text
C12_Clause(h, text) ==
    IF h.type = NoNode THEN "catch (Exception)"
    ELSE "catch (" \o DictGet(exception_mapping, text, text)
             \o (IF h.name # None THEN " " \o h.name[1] ELSE "") \o ")"

\* the kind as the source declares it: the identifier of a name
C12_DeclaredKind(h) ==
    IF h.type = NoNode THEN "" ELSE
    IF h.type.kind = "Name" THEN h.type.id ELSE Concat(visit_expr(h.type))

\* the kind as visit_expr renders it: a name goes through type_mapping first
C12_RenderedKind(h) == IF h.type = NoNode THEN "" ELSE Concat(visit_expr(h.type))

\* line i is the catch line with the given text, and the block after it holds the body of h
C12_IsClause(i, h, text) ==
    /\ i + 2 <= Len(output)
    /\ Concat(output[i].toks) = text
    /\ output[i + 1] = [indent |-> output[i].indent, toks |-> <<"{">>]
    /\ Closing(output, i + 1) > i + 1
    /\ \A j \in (i + 2)..(Closing(output, i + 1) - 1) :
           output[j].toks # <<>> => output[j].indent > output[i].indent
    /\ h.body[1].kind = "Pass" =>
           output[i + 2] = [indent |-> output[i].indent + 1, toks |-> <<"// pass">>]

C13_Operands(n) == <<n.left>> \o n.comparators

\* the conjunction of the adjacent pairs of n
C13_Pairs(n) ==
    <<"(">>
    \o JoinToks([i \in 1..Len(n.ops) |->
                    visit_expr(C13_Operands(n)[i])
                        \o <<" ", get_comparison_operator(n.ops[i]), " ">>
                        \o visit_expr(C13_Operands(n)[i + 1])], " && ")
    \o <<")">>

C13_ChainIsPairwiseAnd ==
    WalkReturned =>
        \A n \in AllNodes(tree[1]) :
            (n.kind = "Compare" /\ Len(n.ops) >= 2) =>
                /\ Concat(visit_expr(n)) = Concat(C13_Pairs(n))
                /\ \E i \in 1..Len(output) : IsInfix(C13_Pairs(n), output[i].toks)

(***************************************************************************)
(* C14: the text of every BinOp, UnaryOp, Compare and BoolOp node, at any  *)
(* depth, starts with `(` and ends with the `)` that matches it.           *)
(***************************************************************************)
RECURSIVE ParenDepth(_, _)
\* the number of `(` less the number of `)` in the first i characters of text
ParenDepth(text, i) ==
    IF i = 0 THEN 0
    ELSE ParenDepth(text, i - 1)
             + (IF SubSeq(text, i, i) = "(" THEN 1 ELSE IF SubSeq(text, i, i) = ")" THEN -1 ELSE 0)

\* text is one parenthesized group
IsParenthesized(text) ==
    /\ Len(text) >= 2
    /\ SubSeq(text, 1, 1) = "("
    /\ SubSeq(text, Len(text), Len(text)) = ")"
    /\ ParenDepth(text, Len(text)) = 0
    /\ \A i \in 1..(Len(text) - 1) : ParenDepth(text, i) >= 1

CompoundKinds == {"BinOp", "UnaryOp", "Compare", "BoolOp"}

C14_CompoundIsParenthesized ==
    WalkReturned =>
        \A n \in AllNodes(tree[1]) :
            n.kind \in CompoundKinds => IsParenthesized(Concat(visit_expr(n)))

(***************************************************************************)
(* C15: a FunctionDef that is a direct member of a ClassDef body is        *)
(* translated with in_class set and current_class the name of that class,  *)
(* whatever members precede it: __init__ becomes the constructor           *)
(* `public <ClassName>(...)`, every other member a `public` method.        *)
(***************************************************************************)
RECURSIVE SkipVisits(_)
\* the instructions that follow the pending visits of the statements of one body
SkipVisits(instrs) ==
    IF instrs # <<>> /\ Head(instrs).op = "visit" THEN SkipVisits(Tail(instrs)) ELSE instrs

\* the walk is about to dispatch a statement of the body of a ClassDef
C15_AtClassMember ==
    /\ Running("visit")
    /\ SkipVisits(stack) # <<>>
    /\ Head(SkipVisits(stack)).op = "set_class"

\* the signature line of the member f of the class c
C15_Signature(c, f) ==
    IF f.name = "__init__" THEN <<"public ", c.name, "(">>
    ELSE <<"public", " ",
           IF f.returns # NoNode THEN get_type_annotation(f.returns) ELSE "void",
           " ", f.name, "(">>

C15_MembersSeeTheirClass ==
    /\ (C15_AtClassMember /\ Head(stack).node.kind = "FunctionDef") =>
           /\ in_class
           /\ \E k \in 1..Len(visited) :
                  /\ visited[k].kind = "ClassDef"
                  /\ current_class = Some(visited[k].name)
                  /\ \E m \in 1..Len(visited[k].body) : visited[k].body[m] = Head(stack).node
    /\ WalkReturned =>
           \A k \in 1..Len(visited) :
               visited[k].kind = "ClassDef" =>
                   \A m \in 1..Len(visited[k].body) :
                       visited[k].body[m].kind = "FunctionDef" =>
                           \E i \in 1..Len(output) :
                               StartsWith(output[i].toks,
                                          C15_Signature(visited[k], visited[k].body[m]))

(***************************************************************************)
(* C16: infer_type gives every expression a type text without raising: a   *)
(* literal its own type (int, double, string, bool), a list, dict or set   *)
(* literal its generic collection, a call to int, float, str or bool the   *)
(* type table's entry for that name, and every other node var.  The type   *)
(* starts the declaration line of an assignment to a name.                 *)
(***************************************************************************)
\* the type that the rule order of the claim gives the node
C16_RuleType(node) ==
    IF node.kind = "Constant" /\ node.vtype = "int" THEN "int"
    ELSE IF node.kind = "Constant" /\ node.vtype = "float" THEN "double"
    ELSE IF node.kind = "Constant" /\ node.vtype = "str" THEN "string"
    ELSE IF node.kind = "Constant" /\ node.vtype = "bool" THEN "bool"
    ELSE IF node.kind = "List" THEN "List<object>"
    ELSE IF node.kind = "Dict" THEN "Dictionary<object, object>"
    ELSE IF node.kind = "Set" THEN "HashSet<object>"
    ELSE IF node.kind = "Call" /\ node.func.kind = "Name"
               /\ node.func.id \in {"int", "float", "str", "bool"}
         THEN type_mapping[node.func.id]
    ELSE "var"

\* the statement is an assignment of a value to one name; None, which the claim
\* does not list among the literals, is left out
C16_IsDeclaration(n) ==
    /\ n.kind = "Assign"
    /\ Len(n.targets) = 1
    /\ n.targets[1].kind = "Name"
    /\ ~(n.value.kind = "Constant" /\ n.value.vtype = "NoneType")

C16_InferTypeFollowsRules ==
    (WalkReturned \/ WalkRaised) =>
        \A k \in 1..Len(visited) :
            C16_IsDeclaration(visited[k]) =>
                /\ infer_type(visited[k].value) = C16_RuleType(visited[k].value)
                /\ (WalkReturned \/ ~Raises(visited[k].value)) =>
                       \E i \in 1..Len(output) :
                           StartsWith(output[i].toks,
                                      <<C16_RuleType(visited[k].value), " ",
                                        visited[k].targets[1].id, " = ">>)

(***************************************************************************)
(* C17: the lines of every translated Try are, in this order: the `try`    *)
(* block with the try body, one catch block per handler in source order,   *)
(* and, only when the finally body is not empty, the `finally` block; no   *)
(* catch line follows the finally block, and the try block is there even   *)
(* when the Try has no handler.                                            *)
(***************************************************************************)
\* line i is `{` at the given level and has its closing brace
C17_OpensBlock(i, level) ==
    /\ i <= Len(output)
    /\ output[i] = [indent |-> level, toks |-> <<"{">>]
    /\ Closing(output, i) > i

\* line i is a catch or finally line at the given level
C17_IsCatchOrFinally(i, level) ==
    /\ output[i].indent = level
    /\ output[i].toks # <<>>
    /\ output[i].toks[1] \in {"catch (", "catch (Exception)", "finally"}

RECURSIVE C17_CatchesEnd(_, _, _)
\* the index of the line after the catch blocks of the handlers hs, which start at
\* line i in the order of hs; 0 when the lines from i on are not these blocks
C17_CatchesEnd(i, hs, level) ==
    IF hs = <<>> THEN i
    ELSE IF /\ i <= Len(output)
            /\ output[i].indent = level
            /\ Concat(output[i].toks) = C12_Clause(Head(hs), C12_RenderedKind(Head(hs)))
            /\ C17_OpensBlock(i + 1, level)
         THEN C17_CatchesEnd(Closing(output, i + 1) + 1, Tail(hs), level)
         ELSE 0

\* the translation of the Try t starts at line i
C17_IsTryAt(i, t) ==
    LET level == output[i].indent IN
    /\ output[i].toks = <<"try">>
    /\ C17_OpensBlock(i + 1, level)
    /\ t.body[1].kind = "Pass" =>
           output[i + 2] = [indent |-> level + 1, toks |-> <<"// pass">>]
    /\ LET e == C17_CatchesEnd(Closing(output, i + 1) + 1, t.handlers, level) IN
       /\ e > 0
       /\ IF t.finalbody # <<>>
          THEN /\ e <= Len(output)
               /\ output[e] = [indent |-> level, toks |-> <<"finally">>]
               /\ C17_OpensBlock(e + 1, level)
               /\ t.finalbody[1].kind = "Pass" =>
                      output[e + 2] = [indent |-> level + 1, toks |-> <<"// pass">>]
               /\ Closing(output, e + 1) + 1 <= Len(output) =>
                      ~C17_IsCatchOrFinally(Closing(output, e + 1) + 1, level)
          ELSE e <= Len(output) => ~C17_IsCatchOrFinally(e, level)

C17_TryCatchFinallyOrder ==
    WalkReturned =>
        \A k \in 1..Len(visited) :
            visited[k].kind = "Try" =>
                \E i \in 1..Len(output) : C17_IsTryAt(i, visited[k])

\* a Try with two handlers and a finally body was translated, and one without handler
C17_Witness ==
    /\ WalkReturned
    /\ \E k \in 1..Len(visited) :
           /\ visited[k].kind = "Try"
           /\ visited[k].finalbody # <<>>
           /\ Len(visited[k].handlers) = 2
           /\ \E i \in 1..Len(output) : C17_IsTryAt(i, visited[k])
    /\ Cardinality(C12_CatchLines) = 2
    /\ \E i \in 1..Len(output) : output[i].toks = <<"finally">>

(***************************************************************************)
(* C18: every Import and ImportFrom, a relative from-import without module *)
(* name included, yields for each imported name a `//` comment line that   *)
(* holds the module and the name, and never a line of executable code.     *)
(***************************************************************************)
ImportKinds == {"Import", "ImportFrom"}

\* the line is a comment that records the import of name by the statement n
C18_IsImportComment(line, n, name) ==
    /\ line.toks # <<>>
    /\ line.toks[1] \in {"// import ", "// from "}
    /\ line.toks[Len(line.toks)] = name
    /\ (n.kind = "ImportFrom" /\ n.module # None) => HasToken(line, n.module[1])

C18_ImportsBecomeComments ==
    WalkReturned =>
        /\ \A k \in 1..Len(visited) :
               visited[k].kind \in ImportKinds =>
                   \A j \in 1..Len(visited[k].names) :
                       \E i \in 1..Len(output) :
                           C18_IsImportComment(output[i], visited[k], visited[k].names[j])
        \* a module of imports only has comment lines only in its namespace block
        /\ (\A j \in 1..Len(tree[1].body) : tree[1].body[j].kind \in ImportKinds) =>
               \A i \in C3_StatementLines :
                   output[i].toks[1] \in {"// import ", "// from "}

(***************************************************************************)
(* C19: during one run every statement node of the tree is dispatched to a *)
(* handler exactly once, the statements of the else clauses of If, While,  *)
(* For and Try included.                                                   *)
(***************************************************************************)
StmtKinds == {"FunctionDef", "ClassDef", "Return", "Delete", "Assign", "AugAssign",
              "AnnAssign", "For", "While", "If", "With", "Raise", "Try", "Assert",
              "Import", "ImportFrom", "Global", "Expr", "Pass", "Break", "Continue"}

RECURSIVE Descendants(_)
\* the node and its descendants, one entry for every occurrence in the tree
Descendants(node) ==
    <<node>> \o FlattenSeq([i \in 1..Len(iter_child_nodes(node)) |->
                                Descendants(iter_child_nodes(node)[i])])

\* the statement nodes of the tree
Statements(root) == SelectSeq(Descendants(root), LAMBDA n : n.kind \in StmtKinds)

\* how many entries of nodes are the statement s
Occurrences(s, nodes) ==
    Cardinality({ i \in 1..Len(nodes) : nodes[i].kind = s.kind /\ nodes[i] = s })

C19_EveryStatementOnce ==
    WalkReturned =>
        \A j \in 1..Len(Statements(tree[1])) :
            Occurrences(Statements(tree[1])[j], visited)
                = Occurrences(Statements(tree[1])[j], Statements(tree[1]))

(***************************************************************************)
(* C20: the walk started by translator.visit(tree) ends for every tree:    *)
(* every handler passes only proper descendants of its node to self.visit, *)
(* and the run reaches the state where the buffer is joined.               *)
(***************************************************************************)
\* the steps of the walk and the join that follows its return; the interpreter
\* runs the call to its end, so these steps are taken as long as one is enabled
WalkStep ==
    \/ visit
    \/ visit_generic
    \/ emit_line
    \/ eval_expr
    \/ change_indent
    \/ set_class
    \/ join_output

LiveSpec == Init /\ [][Next]_vars /\ WF_vars(WalkStep)

\* the instructions that the step put on the stack in place of its first instruction
Pushed == SubSeq(stack', 1, Len(stack') - Len(stack) + 1)

\* a dispatch passes only proper descendants of the dispatched node to self.visit
C20_RecursesIntoDescendants ==
    Running("visit") =>
        \A i \in 1..Len(Pushed) :
            Pushed[i].op = "visit" =>
                Pushed[i].node \in AllNodes(Head(stack).node) \ {Head(stack).node}

C20_LeavesAtEnd ==
    (pc = "visit" /\ pc' # "visit") =>
        /\ runs' = runs
        /\ stack' = <<>>
        /\ (WalkReturned' \/ WalkRaised')

Yields(items) == [error |-> "", items |-> items]
Fails(error) == [error |-> error, items |-> <<>>]

\* the integer that a literal of the emitted text stands for
ParseInt(text) == CHOOSE k \in 0..MaxLiteral : ToString(k) = text

\* Enumerable.Range(start, count): count integers from start; a negative count is
\* rejected by the library when the call is made
EnumerableRange(start, count) ==
    IF count < 0 THEN Fails("ArgumentOutOfRangeException")
    ELSE Yields([k \in 1..count |-> start + k - 1])

\* .Where((x, i) => i % step == 0): the elements at the positions 0, step, 2 step, ...;
\* the predicate divides by step as soon as there is an element to test
WhereEveryNth(seq, step) ==
    IF seq.error # "" \/ seq.items = <<>> THEN seq
    ELSE IF step = 0 THEN Fails("DivideByZeroException")
    ELSE Yields([k \in 1..((Len(seq.items) + step - 1) \div step) |->
                    seq.items[(k - 1) * step + 1]])

RECURSIVE LoopFrom(_, _, _)
\* for (int i = start; i < end; i += step): the values of i in the body
LoopFrom(i, end, step) ==
    IF i < end THEN <<i>> \o LoopFrom(i + step, end, step) ELSE <<>>

\* the loop with a step of 0 never leaves a non-empty range
CountedLoop(start, end, step) ==
    IF start < end /\ step = 0 THEN Fails("never ends")
    ELSE Yields(LoopFrom(start, end, step))

\* a call to range with 1, 2 or 3 integer literals
C21_IsLiteralRange(n) ==
    /\ IsRange123(n)
    /\ \A i \in 1..Len(n.args) : n.args[i].kind = "Constant" /\ n.args[i].vtype = "int"

\* the sequence denoted by the text that visit_Call gives for the call
C21_ExprSequence(call) ==
    LET toks == visit_Call(call)
        start == ParseInt(toks[3])
        count == IF Len(toks) = 6 THEN ParseInt(toks[5])
                 ELSE ParseInt(toks[5]) - ParseInt(toks[7])
        range == EnumerableRange(start, count)
    IN IF Len(toks) > 8 THEN WhereEveryNth(range, ParseInt(toks[10])) ELSE range

\* the sequence enumerated by the loop header that visit_For gives for the call
C21_LoopSequence(call) ==
    LET toks == visit_For(For(Name("i"), call, <<Pass>>, <<>>))[1].toks
        step == IF toks[11] = "++" THEN 1 ELSE ParseInt(toks[12])
    IN CountedLoop(ParseInt(toks[4]), ParseInt(toks[8]), step)

C21_RangeLoweringsAgree ==
    WalkReturned =>
        \A n \in AllNodes(tree[1]) :
            C21_IsLiteralRange(n) => C21_ExprSequence(n) = C21_LoopSequence(n)

(***************************************************************************)
(* C22: an If whose else branch is exactly one If gets the line `else`     *)
(* followed directly by the header of that If, at the indent of the outer  *)
(* If and without a brace pair around it; any other non-empty else branch  *)
(* gets `else` followed by a braced block whose lines are one level deeper.*)
(***************************************************************************)
\* the header `if (<test>)` of an If at the given level
C22_Header(n, level) ==
    [indent |-> level, toks |-> <<"if (">> \o visit_expr(n.test) \o <<")">>]

C22_IsElif(n) == Len(n.orelse) = 1 /\ n.orelse[1].kind = "If"

\* lines i.. hold the If n: its header, its block, and `else` at line e
C22_IfAt(i, n, e) ==
    /\ i + 1 <= Len(output) /\ e + 1 <= Len(output)
    /\ output[i] = C22_Header(n, output[i].indent)
    /\ output[i + 1] = [indent |-> output[i].indent, toks |-> <<"{">>]
    /\ e = Closing(output, i + 1) + 1
    /\ e > i + 2
    /\ output[e] = [indent |-> output[i].indent, toks |-> <<"else">>]

\* line e + 1 opens a block at the level of line e; the lines of the block are
\* deeper, the first of them by one level (blank lines carry no indentation)
C22_BlockAfter(e) ==
    /\ output[e + 1] = [indent |-> output[e].indent, toks |-> <<"{">>]
    /\ Closing(output, e + 1) > e + 2
    /\ \A j \in (e + 2)..(Closing(output, e + 1) - 1) :
           output[j].toks # <<>> => output[j].indent > output[e].indent
    /\ \E j \in (e + 2)..(Closing(output, e + 1) - 1) :
           /\ output[j].toks # <<>> /\ output[j].indent = output[e].indent + 1
           /\ \A k \in (e + 2)..(j - 1) : output[k].toks = <<>>

C22_ElseIfIsChained ==
    WalkReturned =>
        \A n \in AllNodes(tree[1]) :
            (n.kind = "If" /\ n.orelse # <<>>) =>
                \E i, e \in 1..Len(output) :
                    /\ C22_IfAt(i, n, e)
                    /\ IF C22_IsElif(n)
                       THEN output[e + 1] = C22_Header(n.orelse[1], output[i].indent)
                       ELSE C22_BlockAfter(e)

\* `if c: pass / elif c: pass / else: pass` was translated: a chained else-if
\* whose own else branch is a block
C22_Witness ==
    /\ WalkReturned
    /\ \E n \in AllNodes(tree[1]) :
           /\ n.kind = "If" /\ C22_IsElif(n)
           /\ n.orelse[1].orelse # <<>> /\ ~C22_IsElif(n.orelse[1])
           /\ \E i, e \in 1..Len(output) :
                  /\ C22_IfAt(i, n, e)
                  /\ output[e + 1] = C22_Header(n.orelse[1], output[i].indent)
                  /\ \E e2 \in 1..Len(output) :
                         C22_IfAt(e + 1, n.orelse[1], e2) /\ C22_BlockAfter(e2)

(***************************************************************************)
(* C23: every step of a run leaves the output buffer as it is or appends   *)
(* exactly one line at its end, so the buffer at an earlier point of a run *)
(* is a prefix of the buffer at any later point.  The buffer of a run is   *)
(* the one that the construction of its translator creates.                *)
(***************************************************************************)
IsPrefix(s, t) == Len(s) <= Len(t) /\ SubSeq(t, 1, Len(s)) = s

\* the step leaves the buffer of the run alone or appends one line to it
C23_Step ==
    pc # "construct" =>
        \/ output' = output
        \/ Len(output') = Len(output) + 1 /\ IsPrefix(output, output')

C23_BufferIsAppendOnly == [][C23_Step]_vars

\* the second run of a process has filled its buffer and joined it
C23_Witness ==
    /\ runs = 2
    /\ WalkReturned
    /\ Len(output) >= 10
    /\ csharp_code = Some(JoinLines(output))

(***************************************************************************)
(* C24: a Raise whose expression constructs a kind K of the exception      *)
(* mapping emits a throw of the mapped kind of K, the kind that a handler  *)
(* `except K` of the same tree is rendered with; a Raise without           *)
(* expression emits `throw;`.                                              *)
(***************************************************************************)
\* the line is `throw new <kind>...`
C24_IsThrow(line, kind) ==
    Len(line.toks) >= 2 /\ line.toks[1] = "throw new " /\ line.toks[2] = kind

\* the line is `catch (<kind>...`
C24_IsCatch(line, kind) ==
    Len(line.toks) >= 2 /\ line.toks[1] = "catch (" /\ line.toks[2] = kind

\* the Raise constructs a kind of the exception mapping: raise K(...)
C24_ConstructsMapped(n) ==
    /\ n.exc # NoNode
    /\ n.exc.kind = "Call"
    /\ n.exc.func.kind = "Name"
    /\ n.exc.func.id \in DOMAIN exception_mapping

\* h is a handler `except K`
C24_Handles(h, K) ==
    h.kind = "ExceptHandler" /\ h.type # NoNode /\ h.type.kind = "Name" /\ h.type.id = K

Opens(line) == line.toks = <<"{">>
Closes(line) == line.toks = <<"}">>

RECURSIVE Balance(_)
\* the `{` lines less the `}` lines among the first k lines of the buffer; -1 once
\* some prefix held more `}` lines than `{` lines
Balance(k) ==
    IF k = 0 THEN 0
    ELSE LET before == Balance(k - 1)
         IN IF before < 0 THEN -1
            ELSE IF Opens(output[k]) THEN before + 1
            ELSE IF Closes(output[k]) THEN before - 1
            ELSE before

RECURSIVE OpenBraces(_)
\* the indentations of the `{` lines not yet closed after the first k lines, the
\* innermost first; <<-1>> once a `}` line had no `{` line of its indentation to close
OpenBraces(k) ==
    IF k = 0 THEN <<>>
    ELSE LET before == OpenBraces(k - 1)
         IN IF before = <<-1>> THEN before
            ELSE IF Opens(output[k]) THEN <<output[k].indent>> \o before
            ELSE IF Closes(output[k]) THEN
                IF before # <<>> /\ Head(before) = output[k].indent
                THEN Tail(before) ELSE <<-1>>
            ELSE before

\* a For whose header is a call to range with no or with more than 3 arguments
C25_IsHeaderlessFor(n) ==
    /\ n.kind = "For"
    /\ n.iter.kind = "Call" /\ n.iter.func.kind = "Name" /\ n.iter.func.id = "range"
    /\ Len(n.iter.args) \notin {1, 2, 3}

C25_BracesBalanced ==
    /\ Balance(Len(output)) >= 0
    /\ WalkReturned =>
           /\ Balance(Len(output)) = 0
           /\ OpenBraces(Len(output)) = <<>>

\* a For without loop header was translated: its block follows the brace of the
\* namespace directly, and all blocks are closed
C25_Witness ==
    /\ WalkReturned
    /\ Len(tree[1].body) = 1
    /\ C25_IsHeaderlessFor(tree[1].body[1])
    /\ Opens(output[7]) /\ Opens(output[8])
    /\ output[8].indent = 1
    /\ Cardinality({ i \in 1..Len(output) : Opens(output[i]) }) >= 2
    /\ Balance(Len(output)) = 0
    /\ OpenBraces(Len(output)) = <<>>

(***************************************************************************)
(* C26: in every reachable state the inside-class flag is true exactly     *)
(* when a class name is recorded, so no constructor signature renders an   *)
(* absent name; when the walk has returned the flag is false and the name  *)
(* absent.  The states are those between the steps of the walk: the two    *)
(* assignments of visit_ClassDef are adjacent and form one step.           *)
(***************************************************************************)
\* the line is the constructor signature `public <name>(...`
C26_IsConstructor(line, name) ==
    Len(line.toks) >= 3 /\ line.toks[1] = "public " /\ line.toks[2] = name
        /\ line.toks[3] = "("

C26_FlagMatchesName ==
    /\ in_class <=> current_class # None
    /\ \A i \in 1..Len(output) : ~C26_IsConstructor(output[i], "None")
    /\ WalkReturned => ~in_class /\ current_class = None

\* the walk is inside the class B and has emitted the signature of its constructor
C26_Witness ==
    /\ pc = "visit"
    /\ in_class
    /\ current_class = Some("B")
    /\ \E i \in 1..Len(output) : C26_IsConstructor(output[i], "B")

====
